---- MODULE Spec2Model ----
(***************************************************************************)
(* A model of the Raydium CPMM quoting-and-assembly engine of              *)
(* src/src/lib/raydiumCpmm.ts: the swap pricing formula, the slippage      *)
(* policy, the swap instruction (accounts and payload) and the assembly    *)
(* of the swap transaction by createSwapTransaction.                       *)
(***************************************************************************)
EXTENDS Integers, Sequences, FiniteSets, TLC

(***************************************************************************)
(* bn.js values.  A BN is an arbitrary-precision integer; the code only    *)
(* ever builds non-negative ones.  The model keeps a BN as the sequence of *)
(* its base-BNBase limbs, least significant first, without leading zero    *)
(* limbs (zero is the empty sequence), so that no product or sum of the    *)
(* code is cut to the width of the model checker's integers.               *)
(***************************************************************************)
BNBase == 10000

RECURSIVE BNNorm(_)
BNNorm(s) ==
  IF s = <<>> THEN <<>>
  ELSE IF s[Len(s)] = 0 THEN BNNorm(SubSeq(s, 1, Len(s) - 1))
  ELSE s

\* new BN(n) for a JavaScript number n that is a non-negative integer
RECURSIVE BNNew(_)
BNNew(n) == IF n = 0 THEN <<>> ELSE <<n % BNBase>> \o BNNew(n \div BNBase)

BNIsZero(a) == a = <<>>

RECURSIVE BNAddC(_, _, _)
BNAddC(a, b, c) ==
  IF a = <<>> /\ b = <<>> THEN (IF c = 0 THEN <<>> ELSE <<c>>)
  ELSE LET x == IF a = <<>> THEN 0 ELSE Head(a)
           y == IF b = <<>> THEN 0 ELSE Head(b)
           s == x + y + c
       IN  <<s % BNBase>> \o
           BNAddC(IF a = <<>> THEN <<>> ELSE Tail(a),
                  IF b = <<>> THEN <<>> ELSE Tail(b), s \div BNBase)

BNAdd(a, b) == BNAddC(a, b, 0)

\* -1, 0 or 1 as a < b, a = b, a > b
RECURSIVE BNCmpTop(_, _, _)
BNCmpTop(a, b, i) ==
  IF i = 0 THEN 0
  ELSE IF a[i] < b[i] THEN -1
  ELSE IF a[i] > b[i] THEN 1
  ELSE BNCmpTop(a, b, i - 1)

BNCmp(a, b) ==
  IF Len(a) < Len(b) THEN -1
  ELSE IF Len(a) > Len(b) THEN 1
  ELSE BNCmpTop(a, b, Len(a))

BNLt(a, b) == BNCmp(a, b) < 0
BNLte(a, b) == BNCmp(a, b) <= 0

\* a - b for a >= b
RECURSIVE BNSubB(_, _, _)
BNSubB(a, b, borrow) ==
  IF a = <<>> THEN <<>>
  ELSE LET y == IF b = <<>> THEN 0 ELSE Head(b)
           d == Head(a) - y - borrow
       IN  <<IF d < 0 THEN d + BNBase ELSE d>> \o
           BNSubB(Tail(a), IF b = <<>> THEN <<>> ELSE Tail(b),
                  IF d < 0 THEN 1 ELSE 0)

BNSub(a, b) == BNNorm(BNSubB(a, b, 0))

\* a * k for a number 0 <= k <= BNBase
RECURSIVE BNMulLimb(_, _, _)
BNMulLimb(a, k, c) ==
  IF a = <<>> THEN (IF c = 0 THEN <<>> ELSE <<c>>)
  ELSE LET p == Head(a) * k + c
       IN  <<p % BNBase>> \o BNMulLimb(Tail(a), k, p \div BNBase)

BNMulSmall(a, k) == IF k = 0 THEN <<>> ELSE BNMulLimb(a, k, 0)

\* a.mul(b), a limb of b at a time from the most significant one; acc is a
\* times the limbs of b above limb i
RECURSIVE BNMulLoop(_, _, _, _)
BNMulLoop(a, b, i, acc) ==
  IF i = 0 THEN acc
  ELSE IF acc = <<>> THEN BNMulLoop(a, b, i - 1, BNMulSmall(a, b[i]))
  ELSE BNMulLoop(a, b, i - 1, BNAdd(BNMulSmall(a, b[i]), <<0>> \o acc))

BNMul(a, b) == IF a = <<>> THEN <<>> ELSE BNMulLoop(a, b, Len(b), <<>>)

\* The two limbs of r that stand above the top limb of a divisor of m limbs
BNTop(r, m) ==
  (IF Len(r) > m THEN r[m + 1] ELSE 0) * BNBase + (IF Len(r) >= m THEN r[m] ELSE 0)

BNDigitGuess(top, v) == IF top \div v >= BNBase THEN BNBase - 1 ELSE top \div v

BNDigitNear(guess, r, b) ==
  CHOOSE d \in {x \in {guess - 2, guess - 1, guess} : x >= 0} :
    /\ BNLte(BNMulSmall(b, d), r)
    /\ ~BNLte(BNMulSmall(b, d + 1), r)

\* One digit of a long division: the largest d with b * d <= r, for r < b *
\* BNBase and a divisor b that has one limb or a top limb of at least
\* BNBase / 2.  The quotient of the top limbs of r by the top limb of b is
\* then the digit, or one or two above it.
BNDigit(r, b) == BNDigitNear(BNDigitGuess(BNTop(r, Len(b)), b[Len(b)]), r, b)

BNDivPut(q, rem, b, d) == [q |-> <<d>> \o q, r |-> BNSub(rem, BNMulSmall(b, d))]

BNDivDigit(q, rem, b) == BNDivPut(q, rem, b, BNDigit(rem, b))

\* Long division, a limb of the dividend a at a time from the most
\* significant one: acc is the quotient (with leading zero limbs) and the
\* remainder of the limbs of a above limb i
RECURSIVE BNDivLoop(_, _, _, _)
BNDivLoop(a, b, i, acc) ==
  IF i = 0 THEN acc
  ELSE IF acc.r = <<>> /\ a[i] = 0
       THEN BNDivLoop(a, b, i - 1, [q |-> <<0>> \o acc.q, r |-> <<>>])
       ELSE BNDivLoop(a, b, i - 1, BNDivDigit(acc.q, <<a[i]>> \o acc.r, b))

\* Quotient and remainder of a by b, b as for BNDigit
BNLongDivision(a, b) == BNDivLoop(a, b, Len(a), [q |-> <<>>, r |-> <<>>])

BNUnscale(scaled, scale) ==
  [q |-> BNNorm(scaled.q),
   r |-> IF scale = 1 THEN scaled.r
         ELSE BNNorm(BNLongDivision(scaled.r, <<scale>>).q)]

BNDivScaled(a, b, scale) ==
  BNUnscale(BNLongDivision(BNMulSmall(a, scale), BNMulSmall(b, scale)), scale)

\* Quotient and remainder of a by b # 0: both are scaled so that the top limb
\* of the divisor is at least BNBase / 2, which leaves the quotient as it is
\* and scales the remainder
BNDivMod(a, b) == BNDivScaled(a, b, BNBase \div (b[Len(b)] + 1))

\* a.div(b) and a.mod(b) for b # 0: bn.js throws on a zero divisor, which the
\* callers below turn into a thrown quote before they divide
BNDiv(a, b) == IF a = <<>> THEN <<>> ELSE BNDivMod(a, b).q
BNMod(a, b) == IF a = <<>> THEN <<>> ELSE BNDivMod(a, b).r

\* The bounds of a JavaScript safe integer and of an unsigned 64-bit integer:
\* 2^53 = 9007 1992 5474 0992 and 2^64 = 1844 6744 0737 0955 1616
Two53 == <<992, 5474, 1992, 9007>>
Two64 == <<1616, 955, 737, 6744, 1844>>

\* a.toNumber(): the JavaScript number of a BN below 2^31
RECURSIVE BNToNat(_)
BNToNat(a) == IF a = <<>> THEN 0 ELSE Head(a) + BNBase * BNToNat(Tail(a))

Max(a, b) == IF a >= b THEN a ELSE b

\* The value of a call that threw instead of returning
Thrown(e) == [ok |-> FALSE, error |-> e]

(***************************************************************************)
(* Program constants                                                       *)
(***************************************************************************)
TOKEN_ACCOUNT_RENT == 2039280
ACCOUNT_SIZE == 165
POOL_DATA_SIZE == 637
DEFAULT_FEE_BPS == 100
BPS_DENOMINATOR == 10000
LOW_LIQUIDITY_THRESHOLD == 100000000
LOW_LIQUIDITY_SLIPPAGE_BPS == 1500
CONSERVATIVE_SLIPPAGE_BPS == 500
COMPUTE_UNIT_LIMIT == 300000
COMPUTE_UNIT_PRICE == 50000
SPOT_PRICE_SCALE == 1000000000
SWAP_DATA_SIZE == 24
POOL_STATUS_ACTIVE == 0

RAYDIUM_CPMM_PROGRAM_ID == "CPMMoo8L3F4NbTegBCKVNunggL7H1ZpdTHKxQB5qKP1C"
RAYDIUM_CPMM_AUTHORITY == "GpMZbSM2GgvTKHJirzeGfMFoaZ8UR2X7F4v8vHTvxFbL"
SWAP_BASE_INPUT_DISCRIMINATOR == <<143, 190, 90, 218, 196, 30, 51, 222>>

\* Identifiers of @solana/spl-token and @solana/web3.js the code imports
NATIVE_MINT == "So11111111111111111111111111111111111111112"
TOKEN_PROGRAM_ID == "TokenkegQfeZyiNwAJbNbGKPFXCWuBvf9Ss623VQ5DA"
TOKEN_2022_PROGRAM_ID == "TokenzQdBNbLqP5VEhdkAS6EPFLC1PHnBqCXEpPxuEb"
SYSTEM_PROGRAM_ID == "11111111111111111111111111111111"

(***************************************************************************)
(* The quote: calculateSwapOutput and the slippage policy of getSwapQuote  *)
(***************************************************************************)

\* amountIn.mul(feeMultiplier).div(feeDivisor)
AmountInAfterFee(amountIn, feeBps) ==
  BNDiv(BNMul(amountIn, BNNew(BPS_DENOMINATOR - feeBps)), BNNew(BPS_DENOMINATOR))

\* outputReserve.mul(new BN(1e9)).div(inputReserve)
SpotPrice(inputReserve, outputReserve) ==
  BNDiv(BNMul(outputReserve, BNNew(SPOT_PRICE_SCALE)), inputReserve)

\* amountIn.mul(spotPrice).div(new BN(1e9)).mul(new BN(10000 - feeBps))
\*   .div(new BN(10000))
ExpectedOutput(amountIn, spotPrice, feeBps) ==
  BNDiv(BNMul(BNDiv(BNMul(amountIn, spotPrice), BNNew(SPOT_PRICE_SCALE)),
              BNNew(BPS_DENOMINATOR - feeBps)),
        BNNew(BPS_DENOMINATOR))

\* Math.max(0, 100 - actualRatio.toNumber() / 100), in hundredths of a
\* percent; toNumber throws from 2^53 on
PriceImpactOfRatio(actualRatio) ==
  IF BNLte(Two53, actualRatio)
  THEN Thrown("Number can only safely store up to 53 bits")
  ELSE IF BNLte(BNNew(BPS_DENOMINATOR), actualRatio) THEN [ok |-> TRUE, value |-> 0]
  ELSE [ok |-> TRUE, value |-> BPS_DENOMINATOR - BNToNat(actualRatio)]

\* expectedOutput.isZero() ? 0 : the impact of the ratio of amountOut to it
PriceImpactOf(amountOut, expectedOutput) ==
  IF BNIsZero(expectedOutput) THEN [ok |-> TRUE, value |-> 0]
  ELSE PriceImpactOfRatio(BNDiv(BNMul(amountOut, BNNew(BPS_DENOMINATOR)),
                                expectedOutput))

\* The price impact in hundredths of a percent (the code's float times 100)
PriceImpact(amountIn, amountOut, inputReserve, outputReserve, feeBps) ==
  PriceImpactOf(amountOut,
                ExpectedOutput(amountIn, SpotPrice(inputReserve, outputReserve), feeBps))

\* The value calculateSwapOutput returns, or what the price impact threw
SwapOutput(amountOut, impact) ==
  IF ~impact.ok THEN impact
  ELSE [ok |-> TRUE, amountOut |-> amountOut, priceImpact |-> impact.value]

SwapOutputOf(amountIn, amountOut, inputReserve, outputReserve, feeBps) ==
  SwapOutput(amountOut,
             PriceImpact(amountIn, amountOut, inputReserve, outputReserve, feeBps))

\* mutation: the denominator leaves out the input that is swapped in
ConstantProduct_InputNotAdded(amountIn, amountInAfterFee, inputReserve, outputReserve, feeBps) ==
  IF BNIsZero(inputReserve)
  THEN Thrown("division by zero")
  ELSE SwapOutputOf(amountIn,
                    BNDiv(BNMul(amountInAfterFee, outputReserve), inputReserve),
                    inputReserve, outputReserve, feeBps)

\* numerator.div(denominator), and the spot price, divide by zero when the
\* input reserve is zero
ConstantProduct(amountIn, amountInAfterFee, inputReserve, outputReserve, feeBps) ==
  IF BNIsZero(inputReserve)
  THEN Thrown("division by zero")
  ELSE SwapOutputOf(amountIn,
                    BNDiv(BNMul(amountInAfterFee, outputReserve),
                          BNAdd(inputReserve, amountInAfterFee)),
                    inputReserve, outputReserve, feeBps)

\* The mutation of calculateSwapOutput that prices the input before the fee
calculateSwapOutput_NoFee(amountIn, inputReserve, outputReserve, feeBps) ==
  ConstantProduct(amountIn, amountIn, inputReserve, outputReserve, feeBps)

\* calculateSwapOutput: the fee comes off the input, then the constant product
calculateSwapOutput(amountIn, inputReserve, outputReserve, feeBps) ==
  ConstantProduct(amountIn, AmountInAfterFee(amountIn, feeBps),
                  inputReserve, outputReserve, feeBps)

\* mutation: the floor ignores the liquidity of the pool
EffectiveSlippageBps_NoLowLiquidity(inputReserve, slippageBps) ==
  Max(slippageBps, CONSERVATIVE_SLIPPAGE_BPS)

\* Math.max(slippageBps, conservativeSlippage)
EffectiveSlippageBps(inputReserve, slippageBps) ==
  LET isLowLiquidity == BNLt(inputReserve, BNNew(LOW_LIQUIDITY_THRESHOLD))
      conservativeSlippage ==
        IF isLowLiquidity THEN LOW_LIQUIDITY_SLIPPAGE_BPS ELSE CONSERVATIVE_SLIPPAGE_BPS
  IN  Max(slippageBps, conservativeSlippage)

\* mutation: the slippage is added to the quoted output instead of taken off
MinimumAmountOut_Added(amountOut, effectiveSlippageBps) ==
  BNDiv(BNMul(amountOut, BNNew(BPS_DENOMINATOR + effectiveSlippageBps)),
        BNNew(BPS_DENOMINATOR))

\* amountOut.mul(slippageMultiplier).div(new BN(10000))
MinimumAmountOut(amountOut, effectiveSlippageBps) ==
  BNDiv(BNMul(amountOut, BNNew(BPS_DENOMINATOR - effectiveSlippageBps)),
        BNNew(BPS_DENOMINATOR))

\* The SwapQuote getSwapQuote returns for the output out of
\* calculateSwapOutput, or what that call threw
SwapQuote(out, inputMint, outputMint, amountIn, inputReserve, slippageBps) ==
  IF ~out.ok THEN out
  ELSE [ok |-> TRUE,
        amountIn |-> amountIn,
        amountOut |-> out.amountOut,
        minimumAmountOut |->
          MinimumAmountOut(out.amountOut,
                           EffectiveSlippageBps(inputReserve, slippageBps)),
        priceImpact |-> out.priceImpact,
        inputMint |-> inputMint,
        outputMint |-> outputMint]

QuoteForReserves(inputMint, outputMint, amountIn, inputReserve, outputReserve, slippageBps) ==
  SwapQuote(calculateSwapOutput(amountIn, inputReserve, outputReserve, DEFAULT_FEE_BPS),
            inputMint, outputMint, amountIn, inputReserve, slippageBps)

\* mutation: the reserves are taken in the stored order whatever the direction
getSwapQuote_StoredOrder(poolState, inputMint, outputMint, amountIn, slippageBps, vaultBalances) ==
  QuoteForReserves(inputMint, outputMint, amountIn,
                   vaultBalances.vault1Balance, vaultBalances.vault0Balance,
                   slippageBps)

\* getSwapQuote once getVaultBalances has returned vaultBalances
getSwapQuote(poolState, inputMint, outputMint, amountIn, slippageBps, vaultBalances) ==
  IF inputMint = poolState.token0Mint
  THEN QuoteForReserves(inputMint, outputMint, amountIn,
                        vaultBalances.vault0Balance, vaultBalances.vault1Balance,
                        slippageBps)
  ELSE QuoteForReserves(inputMint, outputMint, amountIn,
                        vaultBalances.vault1Balance, vaultBalances.vault0Balance,
                        slippageBps)

(***************************************************************************)
(* The swap instruction                                                    *)
(***************************************************************************)

\* buf.writeBigUInt64LE(BigInt(v.toString()), offset): the n low bytes of v,
\* least significant first
RECURSIVE LEBytes(_, _)
LEBytes(v, n) ==
  IF n = 0 THEN <<>>
  ELSE LET dm == BNDivMod(v, BNNew(256))
       IN  <<BNToNat(dm.r)>> \o LEBytes(dm.q, n - 1)

\* writeBigUInt64LE throws a RangeError for a value of 2^64 or more
FitsU64(v) == BNLt(v, Two64)

\* mutation: the two amounts are written in the opposite order
SwapInstructionData_Swapped(amountIn, minimumAmountOut) ==
  SWAP_BASE_INPUT_DISCRIMINATOR \o LEBytes(minimumAmountOut, 8) \o LEBytes(amountIn, 8)

\* Buffer.alloc(24), the discriminator at 0, amountIn at 8, minimumAmountOut at 16
SwapInstructionData(amountIn, minimumAmountOut) ==
  SWAP_BASE_INPUT_DISCRIMINATOR \o LEBytes(amountIn, 8) \o LEBytes(minimumAmountOut, 8)

AccountMeta(pubkey, isSigner, isWritable) ==
  [pubkey |-> pubkey, isSigner |-> isSigner, isWritable |-> isWritable]

\* mutation: the program references come before the vaults
SwapAccounts_ProgramsFirst(poolState, payer, inputTokenAccount, outputTokenAccount, inputMint, outputMint, inputTokenProgram, outputTokenProgram) ==
  LET isInputToken0 == inputMint = poolState.token0Mint
      inputVault  == IF isInputToken0 THEN poolState.token0Vault ELSE poolState.token1Vault
      outputVault == IF isInputToken0 THEN poolState.token1Vault ELSE poolState.token0Vault
  IN  << AccountMeta(payer, TRUE, TRUE),
         AccountMeta(RAYDIUM_CPMM_AUTHORITY, FALSE, FALSE),
         AccountMeta(poolState.ammConfig, FALSE, FALSE),
         AccountMeta(poolState.address, FALSE, TRUE),
         AccountMeta(inputTokenAccount, FALSE, TRUE),
         AccountMeta(outputTokenAccount, FALSE, TRUE),
         AccountMeta(inputTokenProgram, FALSE, FALSE),
         AccountMeta(outputTokenProgram, FALSE, FALSE),
         AccountMeta(inputVault, FALSE, TRUE),
         AccountMeta(outputVault, FALSE, TRUE),
         AccountMeta(inputMint, FALSE, FALSE),
         AccountMeta(outputMint, FALSE, FALSE),
         AccountMeta(poolState.observationKey, FALSE, TRUE) >>

\* The accounts array of buildSwapInstruction
SwapAccounts(poolState, payer, inputTokenAccount, outputTokenAccount, inputMint, outputMint, inputTokenProgram, outputTokenProgram) ==
  LET isInputToken0 == inputMint = poolState.token0Mint
      inputVault  == IF isInputToken0 THEN poolState.token0Vault ELSE poolState.token1Vault
      outputVault == IF isInputToken0 THEN poolState.token1Vault ELSE poolState.token0Vault
  IN  << AccountMeta(payer, TRUE, TRUE),
         AccountMeta(RAYDIUM_CPMM_AUTHORITY, FALSE, FALSE),
         AccountMeta(poolState.ammConfig, FALSE, FALSE),
         AccountMeta(poolState.address, FALSE, TRUE),
         AccountMeta(inputTokenAccount, FALSE, TRUE),
         AccountMeta(outputTokenAccount, FALSE, TRUE),
         AccountMeta(inputVault, FALSE, TRUE),
         AccountMeta(outputVault, FALSE, TRUE),
         AccountMeta(inputTokenProgram, FALSE, FALSE),
         AccountMeta(outputTokenProgram, FALSE, FALSE),
         AccountMeta(inputMint, FALSE, FALSE),
         AccountMeta(outputMint, FALSE, FALSE),
         AccountMeta(poolState.observationKey, FALSE, TRUE) >>

buildSwapInstruction(poolState, payer, inputTokenAccount, outputTokenAccount, inputMint, outputMint, inputTokenProgram, outputTokenProgram, amountIn, minimumAmountOut) ==
  IF ~FitsU64(amountIn) \/ ~FitsU64(minimumAmountOut)
  THEN Thrown("RangeError: value out of range for writeBigUInt64LE")
  ELSE [ok |-> TRUE,
        kind |-> "swap",
        programId |-> RAYDIUM_CPMM_PROGRAM_ID,
        keys |-> SwapAccounts(poolState, payer, inputTokenAccount, outputTokenAccount,
                              inputMint, outputMint, inputTokenProgram,
                              outputTokenProgram),
        data |-> SwapInstructionData(amountIn, minimumAmountOut)]

(***************************************************************************)
(* Temporary wrapped-native accounts                                       *)
(***************************************************************************)

\* TOKEN_ACCOUNT_RENT + amountLamports.toNumber() as a JavaScript number: a
\* double holds every integer up to 2^53, and above it (below 2^54) only the
\* even ones, an odd sum rounding to the neighbour with the even mantissa
RentPlus(amountLamports) ==
  LET sum == BNAdd(BNNew(TOKEN_ACCOUNT_RENT), amountLamports)
      r   == BNToNat(BNMod(sum, BNNew(4)))
  IN  IF BNLte(sum, Two53) THEN sum
      ELSE IF r = 1 THEN BNSub(sum, BNNew(1))
      ELSE IF r = 3 THEN BNAdd(sum, BNNew(1))
      ELSE sum

\* PublicKey.createWithSeed(payer, seed, TOKEN_PROGRAM_ID): a hash of its three
\* arguments, kept as the arguments themselves
CreateWithSeed(base, seed, programId) ==
  [base |-> base, seed |-> seed, programId |-> programId]

\* mutation: the address is derived from a seed that is the same in every call
createTempWsolAccount_FixedSeed(payer, amountLamports, seed) ==
  LET wsolAccount == CreateWithSeed(payer, 1, TOKEN_PROGRAM_ID)
  IN  IF BNLte(Two53, amountLamports)
      THEN Thrown("Number can only safely store up to 53 bits")
      ELSE [ok |-> TRUE,
            wsolAccount |-> wsolAccount,
            seed |-> 1,
            createInstruction |->
              [kind |-> "createAccountWithSeed",
               programId |-> SYSTEM_PROGRAM_ID,
               fromPubkey |-> payer,
               newAccountPubkey |-> wsolAccount,
               basePubkey |-> payer,
               seed |-> 1,
               lamports |-> RentPlus(amountLamports),
               space |-> ACCOUNT_SIZE,
               owner |-> TOKEN_PROGRAM_ID],
            initInstruction |->
              [kind |-> "initializeAccount",
               programId |-> TOKEN_PROGRAM_ID,
               account |-> wsolAccount,
               mint |-> NATIVE_MINT,
               owner |-> payer]]

\* createTempWsolAccount with the seed Keypair.generate() gave it
createTempWsolAccount(payer, amountLamports, seed) ==
  LET wsolAccount == CreateWithSeed(payer, seed, TOKEN_PROGRAM_ID)
  IN  IF BNLte(Two53, amountLamports)
      THEN Thrown("Number can only safely store up to 53 bits")
      ELSE [ok |-> TRUE,
            wsolAccount |-> wsolAccount,
            seed |-> seed,
            createInstruction |->
              [kind |-> "createAccountWithSeed",
               programId |-> SYSTEM_PROGRAM_ID,
               fromPubkey |-> payer,
               newAccountPubkey |-> wsolAccount,
               basePubkey |-> payer,
               seed |-> seed,
               lamports |-> RentPlus(amountLamports),
               space |-> ACCOUNT_SIZE,
               owner |-> TOKEN_PROGRAM_ID],
            initInstruction |->
              [kind |-> "initializeAccount",
               programId |-> TOKEN_PROGRAM_ID,
               account |-> wsolAccount,
               mint |-> NATIVE_MINT,
               owner |-> payer]]

\* createCloseAccountInstruction(account, payer, payer, [], TOKEN_PROGRAM_ID)
CloseAccountInstruction(account, payer) ==
  [kind |-> "closeAccount",
   programId |-> TOKEN_PROGRAM_ID,
   account |-> account,
   destination |-> payer,
   authority |-> payer]

\* getAssociatedTokenAddressSync(mint, owner, false, tokenProgram): a derived
\* address, kept as what it is derived from
AssociatedTokenAddress(mint, owner, tokenProgram) ==
  [ata |-> TRUE, mint |-> mint, owner |-> owner, tokenProgram |-> tokenProgram]

CreateAssociatedTokenAccountIdempotentInstruction(payer, ata, owner, mint, tokenProgram) ==
  [kind |-> "createAssociatedTokenAccountIdempotent",
   payer |-> payer,
   associatedToken |-> ata,
   owner |-> owner,
   mint |-> mint,
   programId |-> tokenProgram]

ComputeBudgetInstructions ==
  << [kind |-> "setComputeUnitLimit", units |-> COMPUTE_UNIT_LIMIT],
     [kind |-> "setComputeUnitPrice", microLamports |-> COMPUTE_UNIT_PRICE] >>

(***************************************************************************)
(* The ledger the RPC connection reads: pool accounts of the CPMM program  *)
(* in both mint orderings, inactive pools, a configuration account of the  *)
(* program, an account another program owns, and the mint accounts.        *)
(***************************************************************************)
\* The bytes of a pool account, kept as the value each field of
\* POOL_STATE_LAYOUT holds and the length of the buffer
PoolAccount(cfg, v0, v1, m0, m1, p0, p1, obs, status) ==
  [owner |-> RAYDIUM_CPMM_PROGRAM_ID,
   data |-> [length |-> POOL_DATA_SIZE,
             ammConfig |-> cfg, poolCreator |-> "Creator",
             token0Vault |-> v0, token1Vault |-> v1, lpMint |-> "LpMint",
             token0Mint |-> m0, token1Mint |-> m1,
             token0Program |-> p0, token1Program |-> p1,
             observationKey |-> obs, authBump |-> 255, status |-> status,
             lpMintDecimals |-> 9, mint0Decimals |-> 9, mint1Decimals |-> 6,
             lpSupply |-> BNNew(1000), protocolFeesToken0 |-> BNNew(0),
             protocolFeesToken1 |-> BNNew(0), fundFeesToken0 |-> BNNew(0),
             fundFeesToken1 |-> BNNew(0), openTime |-> BNNew(0)]]

\* An account of the CPMM program that is not a pool: the fee configuration
\* the pools refer to, a shorter record whose bytes are no pool fields
ConfigAccount ==
  [owner |-> RAYDIUM_CPMM_PROGRAM_ID,
   data |-> [length |-> 236,
             ammConfig |-> "ConfigBytes8", poolCreator |-> "ConfigBytes40",
             token0Vault |-> "ConfigBytes72", token1Vault |-> "ConfigBytes104",
             lpMint |-> "ConfigBytes136", token0Mint |-> "ConfigBytes168",
             token1Mint |-> "ConfigBytes200", token0Program |-> "ConfigBytes232"]]

Ledger ==
  [PoolSolAInactive |->
     PoolAccount("Config1", "VaultI0", "VaultI1", NATIVE_MINT, "MintA",
                 TOKEN_PROGRAM_ID, TOKEN_PROGRAM_ID, "ObsI", 1),
   PoolSolA |->
     PoolAccount("Config1", "VaultSolA0", "VaultSolA1", NATIVE_MINT, "MintA",
                 TOKEN_PROGRAM_ID, TOKEN_PROGRAM_ID, "ObsSolA", POOL_STATUS_ACTIVE),
   PoolBSol |->
     PoolAccount("Config2", "VaultBSol0", "VaultBSol1", "MintB", NATIVE_MINT,
                 TOKEN_2022_PROGRAM_ID, TOKEN_PROGRAM_ID, "ObsBSol", POOL_STATUS_ACTIVE),
   PoolAB |->
     PoolAccount("Config1", "VaultAB0", "VaultAB1", "MintA", "MintB",
                 TOKEN_PROGRAM_ID, TOKEN_2022_PROGRAM_ID, "ObsAB", POOL_STATUS_ACTIVE),
   PoolBA |->
     PoolAccount("Config2", "VaultBA0", "VaultBA1", "MintB", "MintA",
                 TOKEN_2022_PROGRAM_ID, TOKEN_PROGRAM_ID, "ObsBA", POOL_STATUS_ACTIVE),
   PoolCSolInactive |->
     PoolAccount("Config1", "VaultCI0", "VaultCI1", "MintC", NATIVE_MINT,
                 TOKEN_PROGRAM_ID, TOKEN_PROGRAM_ID, "ObsCI", 2),
   PoolSolC |->
     PoolAccount("Config2", "VaultSolC0", "VaultSolC1", NATIVE_MINT, "MintC",
                 TOKEN_PROGRAM_ID, TOKEN_PROGRAM_ID, "ObsSolC", POOL_STATUS_ACTIVE),
   PoolACInactive |->
     PoolAccount("Config1", "VaultAC0", "VaultAC1", "MintA", "MintC",
                 TOKEN_PROGRAM_ID, TOKEN_PROGRAM_ID, "ObsAC", 1),
   Config1 |-> ConfigAccount,
   Wallet |-> [owner |-> SYSTEM_PROGRAM_ID, data |-> [length |-> 0]],
   MintA  |-> [owner |-> TOKEN_PROGRAM_ID,
               data |-> [length |-> 82, ammConfig |-> "MintABytes8",
                         poolCreator |-> "MintABytes40",
                         token0Vault |-> "MintABytes72"]],
   MintB  |-> [owner |-> TOKEN_2022_PROGRAM_ID,
               data |-> [length |-> 82, ammConfig |-> "MintBBytes8",
                         poolCreator |-> "MintBBytes40",
                         token0Vault |-> "MintBBytes72"]],
   MintC  |-> [owner |-> TOKEN_PROGRAM_ID,
               data |-> [length |-> 82, ammConfig |-> "MintCBytes8",
                         poolCreator |-> "MintCBytes40",
                         token0Vault |-> "MintCBytes72"]]]

\* The order in which getProgramAccounts lists the accounts of the program
ProgramAccountOrder ==
  <<"PoolSolAInactive", "PoolSolA", "PoolBSol", "PoolAB", "PoolBA",
    "PoolCSolInactive", "PoolSolC", "PoolACInactive", "Config1">>

AccountExists(address) == address \in DOMAIN Ledger

\* The offsets of the fields in the data of a pool account
POOL_STATE_LAYOUT ==
  [AMM_CONFIG |-> 8, POOL_CREATOR |-> 40, TOKEN_0_VAULT |-> 72, TOKEN_1_VAULT |-> 104,
   LP_MINT |-> 136, TOKEN_0_MINT |-> 168, TOKEN_1_MINT |-> 200,
   TOKEN_0_PROGRAM |-> 232, TOKEN_1_PROGRAM |-> 264, OBSERVATION_KEY |-> 296,
   AUTH_BUMP |-> 328, STATUS |-> 329, LP_MINT_DECIMALS |-> 330,
   MINT_0_DECIMALS |-> 331, MINT_1_DECIMALS |-> 332, LP_SUPPLY |-> 333,
   PROTOCOL_FEES_TOKEN_0 |-> 341, PROTOCOL_FEES_TOKEN_1 |-> 349,
   FUND_FEES_TOKEN_0 |-> 357, FUND_FEES_TOKEN_1 |-> 365, OPEN_TIME |-> 373]

\* 256^k as a BN
RECURSIVE BNPow256(_)
BNPow256(k) == IF k = 0 THEN BNNew(1) ELSE BNMulSmall(BNPow256(k - 1), 256)

\* new PublicKey(data.subarray(offset, offset + 32)): subarray stops at the end
\* of the buffer and PublicKey takes any buffer of at most 32 bytes as a
\* big-endian number, so a field cut short gives the key of the bytes there
\* are and a field past the end gives the all-zero key
ReadPublicKey(data, offset, field) ==
  IF offset + 32 <= data.length THEN data[field]
  ELSE IF offset >= data.length THEN SYSTEM_PROGRAM_ID
  ELSE [truncated |-> data[field], bytes |-> data.length - offset]

\* data[offset]: the byte, or undefined past the end of the buffer
ReadU8(data, offset, field) ==
  IF offset < data.length THEN data[field] ELSE "undefined"

\* new BN(data.subarray(offset, offset + 8), "le"): the little-endian number of
\* the bytes there are, zero for none
ReadU64(data, offset, field) ==
  IF offset + 8 <= data.length THEN data[field]
  ELSE IF offset >= data.length THEN BNNew(0)
  ELSE BNMod(data[field], BNPow256(data.length - offset))

\* parsePoolState(address, data): the fields at the offsets of
\* POOL_STATE_LAYOUT.  No length is checked and nothing is thrown.
parsePoolState(address, data) ==
  [address |-> address,
   ammConfig |-> ReadPublicKey(data, POOL_STATE_LAYOUT.AMM_CONFIG, "ammConfig"),
   poolCreator |-> ReadPublicKey(data, POOL_STATE_LAYOUT.POOL_CREATOR, "poolCreator"),
   token0Vault |-> ReadPublicKey(data, POOL_STATE_LAYOUT.TOKEN_0_VAULT, "token0Vault"),
   token1Vault |-> ReadPublicKey(data, POOL_STATE_LAYOUT.TOKEN_1_VAULT, "token1Vault"),
   lpMint |-> ReadPublicKey(data, POOL_STATE_LAYOUT.LP_MINT, "lpMint"),
   token0Mint |-> ReadPublicKey(data, POOL_STATE_LAYOUT.TOKEN_0_MINT, "token0Mint"),
   token1Mint |-> ReadPublicKey(data, POOL_STATE_LAYOUT.TOKEN_1_MINT, "token1Mint"),
   token0Program |->
     ReadPublicKey(data, POOL_STATE_LAYOUT.TOKEN_0_PROGRAM, "token0Program"),
   token1Program |->
     ReadPublicKey(data, POOL_STATE_LAYOUT.TOKEN_1_PROGRAM, "token1Program"),
   observationKey |->
     ReadPublicKey(data, POOL_STATE_LAYOUT.OBSERVATION_KEY, "observationKey"),
   authBump |-> ReadU8(data, POOL_STATE_LAYOUT.AUTH_BUMP, "authBump"),
   status |-> ReadU8(data, POOL_STATE_LAYOUT.STATUS, "status"),
   lpMintDecimals |-> ReadU8(data, POOL_STATE_LAYOUT.LP_MINT_DECIMALS, "lpMintDecimals"),
   mint0Decimals |-> ReadU8(data, POOL_STATE_LAYOUT.MINT_0_DECIMALS, "mint0Decimals"),
   mint1Decimals |-> ReadU8(data, POOL_STATE_LAYOUT.MINT_1_DECIMALS, "mint1Decimals"),
   lpSupply |-> ReadU64(data, POOL_STATE_LAYOUT.LP_SUPPLY, "lpSupply"),
   protocolFeesToken0 |->
     ReadU64(data, POOL_STATE_LAYOUT.PROTOCOL_FEES_TOKEN_0, "protocolFeesToken0"),
   protocolFeesToken1 |->
     ReadU64(data, POOL_STATE_LAYOUT.PROTOCOL_FEES_TOKEN_1, "protocolFeesToken1"),
   fundFeesToken0 |->
     ReadU64(data, POOL_STATE_LAYOUT.FUND_FEES_TOKEN_0, "fundFeesToken0"),
   fundFeesToken1 |->
     ReadU64(data, POOL_STATE_LAYOUT.FUND_FEES_TOKEN_1, "fundFeesToken1"),
   openTime |-> ReadU64(data, POOL_STATE_LAYOUT.OPEN_TIME, "openTime")]

\* What the lookups return for "no pool": null
NullPool == [found |-> FALSE]
FoundPool(poolState) == [found |-> TRUE, state |-> poolState]

\* A request sent over the connection and how it ended: status is "pending",
\* "ok" or "failed", value is what a balance read returned, and rank is, for
\* the reads of one Promise.all, the place in which the read completed (0
\* while it is pending and for a request that is awaited alone)
Request(method, arg, status, value, rank) ==
  [method |-> method, arg |-> arg, status |-> status, value |-> value, rank |-> rank]
Completed(method, arg, rpcOk) ==
  Request(method, arg, IF rpcOk THEN "ok" ELSE "failed", "none", 0)

\* mutation: the owner of the account is not looked at
getPoolStateByAddress_NoOwnerCheck(poolAddress, rpcOk) ==
  IF ~rpcOk THEN NullPool
  ELSE IF ~AccountExists(poolAddress) THEN NullPool
  ELSE FoundPool(parsePoolState(poolAddress, Ledger[poolAddress].data))

\* getPoolStateByAddress; rpcOk is whether connection.getAccountInfo returned
\* (an error it threw is caught and gives null as well)
getPoolStateByAddress(poolAddress, rpcOk) ==
  IF ~rpcOk THEN NullPool
  ELSE IF ~AccountExists(poolAddress) THEN NullPool
  ELSE IF Ledger[poolAddress].owner # RAYDIUM_CPMM_PROGRAM_ID THEN NullPool
  ELSE FoundPool(parsePoolState(poolAddress, Ledger[poolAddress].data))

\* connection.getProgramAccounts(RAYDIUM_CPMM_PROGRAM_ID, {filters}) with the
\* dataSize filter and the two memcmp filters on the mints
getProgramAccounts(mint0, mint1) ==
  SelectSeq(ProgramAccountOrder,
            LAMBDA a : /\ Ledger[a].owner = RAYDIUM_CPMM_PROGRAM_ID
                       /\ Ledger[a].data.length = POOL_DATA_SIZE
                       /\ Ledger[a].data.token0Mint = mint0
                       /\ Ledger[a].data.token1Mint = mint1)

\* mutation: the first candidate is returned whatever its status
FirstActivePool_AnyStatus(allAccounts) ==
  IF allAccounts = <<>> THEN NullPool
  ELSE FoundPool(parsePoolState(Head(allAccounts), Ledger[Head(allAccounts)].data))

\* The first candidate of allAccounts whose status is active
RECURSIVE FirstActivePool(_)
FirstActivePool(allAccounts) ==
  IF allAccounts = <<>> THEN NullPool
  ELSE LET poolState == parsePoolState(Head(allAccounts), Ledger[Head(allAccounts)].data)
       IN  IF poolState.status = POOL_STATUS_ACTIVE THEN FoundPool(poolState)
           ELSE FirstActivePool(Tail(allAccounts))

\* mutation: only the ordering the arguments come in is searched
findPoolByTokenPair_FirstOrderingOnly(tokenA, tokenB, rpcOk1, rpcOk2) ==
  FirstActivePool(IF rpcOk1 THEN getProgramAccounts(tokenA, tokenB) ELSE <<>>)

\* findPoolByTokenPair; rpcOk1 and rpcOk2 are whether each search returned (a
\* failed search counts as an empty list)
findPoolByTokenPair(tokenA, tokenB, rpcOk1, rpcOk2) ==
  LET results1 == IF rpcOk1 THEN getProgramAccounts(tokenA, tokenB) ELSE <<>>
      results2 == IF rpcOk2 THEN getProgramAccounts(tokenB, tokenA) ELSE <<>>
  IN  FirstActivePool(results1 \o results2)

\* What the callback of one search gives Promise.all: the accounts the search
\* listed, or [] for a search that failed (the error is caught and logged)
SearchResult(search) ==
  IF search.status = "ok" THEN getProgramAccounts(search.arg[1], search.arg[2])
  ELSE <<>>

\* mutation: the results are merged in the order the searches completed
MergedAccounts_CompletionOrder(searches) ==
  SearchResult(searches[CHOOSE i \in 1..2 : searches[i].rank = 1])
  \o SearchResult(searches[CHOOSE i \in 1..2 : searches[i].rank = 2])

\* results.flat() of what Promise.all gave for the two searches: the results
\* stand in the order of searchConfigs, whichever search completed first
MergedAccounts(searches) ==
  SearchResult(searches[1]) \o SearchResult(searches[2])

\* The poolAddress argument left out
NoPoolAddress == "undefined"

\* The two searches findPoolByTokenPair sends, each with its two mint filters
SearchRequests(tokenA, tokenB, rpcOk1, rpcOk2) ==
  <<Completed("getProgramAccounts", <<tokenA, tokenB>>, rpcOk1),
    Completed("getProgramAccounts", <<tokenB, tokenA>>, rpcOk2)>>

\* mutation: a direct read that finds nothing falls back to the search
PoolLookup_FallsBackToSearch(poolAddress, inputMint, outputMint, rpcOk1, rpcOk2) ==
  IF poolAddress # NoPoolAddress /\ getPoolStateByAddress(poolAddress, rpcOk1).found
  THEN [pool |-> getPoolStateByAddress(poolAddress, rpcOk1),
        requests |-> <<Completed("getAccountInfo", poolAddress, rpcOk1)>>]
  ELSE [pool |-> findPoolByTokenPair(inputMint, outputMint, rpcOk1, rpcOk2),
        requests |->
          (IF poolAddress # NoPoolAddress
           THEN <<Completed("getAccountInfo", poolAddress, rpcOk1)>> ELSE <<>>)
          \o SearchRequests(inputMint, outputMint, rpcOk1, rpcOk2)]

\* Step 1 of createSwapTransaction: the pool, by address when one is given and
\* by token pair otherwise, and the requests the lookup sent
PoolLookup(poolAddress, inputMint, outputMint, rpcOk1, rpcOk2) ==
  IF poolAddress # NoPoolAddress
  THEN [pool |-> getPoolStateByAddress(poolAddress, rpcOk1),
        requests |-> <<Completed("getAccountInfo", poolAddress, rpcOk1)>>]
  ELSE [pool |-> findPoolByTokenPair(inputMint, outputMint, rpcOk1, rpcOk2),
        requests |-> SearchRequests(inputMint, outputMint, rpcOk1, rpcOk2)]

\* The token accounts of the ledger: the vaults of its pools
TokenAccounts ==
  UNION {{Ledger[a].data.token0Vault, Ledger[a].data.token1Vault} :
           a \in {x \in DOMAIN Ledger : /\ Ledger[x].owner = RAYDIUM_CPMM_PROGRAM_ID
                                        /\ Ledger[x].data.length = POOL_DATA_SIZE}}

\* connection.getTokenAccountBalance(address) for a read the node answers with
\* the amount value (rpcOk) or fails: the node also fails it for an address
\* that is no token account
getTokenAccountBalance(address, rpcOk, value) ==
  IF rpcOk /\ address \in TokenAccounts
  THEN [ok |-> TRUE, amount |-> value]
  ELSE [ok |-> FALSE]

\* A balance read as the request it was, completed at place rank
BalanceRequest(address, info, rank) ==
  Request("getTokenAccountBalance", address, IF info.ok THEN "ok" ELSE "failed",
          IF info.ok THEN info.amount ELSE "none", rank)

\* Promise.all is settled once a read has failed or none is pending
PromiseAllSettled(reads) ==
  \/ \E i \in 1..Len(reads) : reads[i].status = "failed"
  \/ \A i \in 1..Len(reads) : reads[i].status # "pending"

\* mutation: the balances are taken in the order the reads completed
getVaultBalances_CompletionOrder(poolState, reads) ==
  IF \E i \in 1..Len(reads) : reads[i].status = "failed"
  THEN Thrown("getTokenAccountBalance failed")
  ELSE [ok |-> TRUE,
        value |-> [vault0Balance |-> reads[CHOOSE i \in 1..2 : reads[i].rank = 1].value,
                   vault1Balance |-> reads[CHOOSE i \in 1..2 : reads[i].rank = 2].value]]

\* getVaultBalances once Promise.all has settled: reads are the two requests in
\* the order they were passed, token0Vault first.  Promise.all rejects when a
\* read failed and otherwise gives the results in the order of its arguments.
getVaultBalances(poolState, reads) ==
  IF \E i \in 1..Len(reads) : reads[i].status = "failed"
  THEN Thrown("getTokenAccountBalance failed")
  ELSE [ok |-> TRUE,
        value |-> [vault0Balance |-> reads[1].value,
                   vault1Balance |-> reads[2].value]]

\* mutation: a mint whose account is missing is taken for a standard token
getTokenProgramForMint_DefaultProgram(mint, rpcOk) ==
  IF mint = NATIVE_MINT THEN [ok |-> TRUE, program |-> TOKEN_PROGRAM_ID]
  ELSE IF ~rpcOk THEN Thrown("getAccountInfo failed")
  ELSE IF ~AccountExists(mint) THEN [ok |-> TRUE, program |-> TOKEN_PROGRAM_ID]
  ELSE [ok |-> TRUE, program |-> Ledger[mint].owner]

\* getTokenProgramForMint; rpcOk is whether connection.getAccountInfo returned
getTokenProgramForMint(mint, rpcOk) ==
  IF mint = NATIVE_MINT THEN [ok |-> TRUE, program |-> TOKEN_PROGRAM_ID]
  ELSE IF ~rpcOk THEN Thrown("getAccountInfo failed")
  ELSE IF ~AccountExists(mint) THEN Thrown("Mint account not found")
  ELSE [ok |-> TRUE, program |-> Ledger[mint].owner]

\* The requests of step 3: none for the native mint, and none for the output
\* mint when the input one threw
TokenProgramRequests(inputMint, outputMint, rpcOk1, rpcOk2) ==
  (IF inputMint = NATIVE_MINT THEN <<>>
   ELSE <<Completed("getAccountInfo", inputMint, rpcOk1)>>)
  \o
  (IF outputMint = NATIVE_MINT \/ ~getTokenProgramForMint(inputMint, rpcOk1).ok
   THEN <<>>
   ELSE <<Completed("getAccountInfo", outputMint, rpcOk2)>>)

(***************************************************************************)
(* The instruction list of createSwapTransaction                           *)
(***************************************************************************)

\* mutation: the input account is closed only when the output one was made
CloseInstructions_InputForgotten(tempWsolInputAccount, tempWsolOutputAccount, payer) ==
  IF tempWsolOutputAccount.made
  THEN <<CloseAccountInstruction(tempWsolOutputAccount.account, payer)>>
  ELSE <<>>

\* The close of the temporary output account, then of the temporary input one
CloseInstructions(tempWsolInputAccount, tempWsolOutputAccount, payer) ==
  (IF tempWsolOutputAccount.made
   THEN <<CloseAccountInstruction(tempWsolOutputAccount.account, payer)>>
   ELSE <<>>)
  \o
  (IF tempWsolInputAccount.made
   THEN <<CloseAccountInstruction(tempWsolInputAccount.account, payer)>>
   ELSE <<>>)

\* mutation: the temporary accounts are closed before the swap runs
InstructionList_CloseFirst(inputSetup, outputSetup, swapInstruction, closes) ==
  ComputeBudgetInstructions \o inputSetup \o outputSetup \o closes \o <<swapInstruction>>

\* The pushes onto instructions, in the order the code makes them
InstructionList(inputSetup, outputSetup, swapInstruction, closes) ==
  ComputeBudgetInstructions \o inputSetup \o outputSetup \o <<swapInstruction>> \o closes

NoTempAccount == [made |-> FALSE]
TempAccount(account) == [made |-> TRUE, account |-> account]

\* Steps 4 to 7 of createSwapTransaction: the instructions, or what was thrown
SwapInstructions(poolState, payer, inputMint, outputMint, quote, inputTokenProgram, outputTokenProgram, seedIn, seedOut) ==
  LET isInputSOL  == inputMint = NATIVE_MINT
      isOutputSOL == outputMint = NATIVE_MINT
      tempIn  == createTempWsolAccount(payer, quote.amountIn, seedIn)
      tempOut == createTempWsolAccount(payer, BNNew(0), seedOut)
      tempWsolInputAccount ==
        IF isInputSOL THEN TempAccount(tempIn.wsolAccount) ELSE NoTempAccount
      tempWsolOutputAccount ==
        IF isOutputSOL THEN TempAccount(tempOut.wsolAccount) ELSE NoTempAccount
      inputTokenAccount ==
        IF isInputSOL THEN tempIn.wsolAccount
        ELSE AssociatedTokenAddress(inputMint, payer, inputTokenProgram)
      outputTokenAccount ==
        IF isOutputSOL THEN tempOut.wsolAccount
        ELSE AssociatedTokenAddress(outputMint, payer, outputTokenProgram)
      inputSetup ==
        IF isInputSOL THEN <<tempIn.createInstruction, tempIn.initInstruction>>
        ELSE <<>>
      outputSetup ==
        IF isOutputSOL THEN <<tempOut.createInstruction, tempOut.initInstruction>>
        ELSE <<CreateAssociatedTokenAccountIdempotentInstruction(
                 payer, outputTokenAccount, payer, outputMint, outputTokenProgram)>>
      swapInstruction ==
        buildSwapInstruction(poolState, payer, inputTokenAccount, outputTokenAccount,
                             inputMint, outputMint, inputTokenProgram,
                             outputTokenProgram, quote.amountIn, quote.minimumAmountOut)
  IN  IF isInputSOL /\ ~tempIn.ok THEN tempIn
      ELSE IF ~swapInstruction.ok THEN swapInstruction
      ELSE [ok |-> TRUE,
            instructions |->
              InstructionList(inputSetup, outputSetup, swapInstruction,
                              CloseInstructions(tempWsolInputAccount,
                                                tempWsolOutputAccount, payer))]

(***************************************************************************)
(* Bounds and the inputs the calls are made with                           *)
(***************************************************************************)
\* The seeds Keypair.generate() can give.  A generated key is fresh: two
\* draws of one run never give the same seed.
NumSeeds == 4
Seeds == 1..NumSeeds

U64Max == BNSub(Two64, BNNew(1))

Payer == "Payer"
Mints == {NATIVE_MINT, "MintA", "MintB", "MintX"}
PoolAddresses ==
  {NoPoolAddress, "PoolSolA", "PoolBSol", "PoolAB", "PoolSolAInactive", "Config1",
   "Wallet", "NoSuchAccount"}
AmountsIn == {BNNew(10000), BNSub(Two53, BNNew(1)), U64Max, Two64}
SlippageChoices == {100, 2000}
VaultAmounts == {BNNew(0), BNNew(200000000)}
RpcOutcomes == BOOLEAN

(***************************************************************************)
(* State                                                                   *)
(***************************************************************************)
VARIABLES
  pc,             \* where the createSwapTransaction call is
  call,           \* its arguments
  poolState,      \* the pool the lookup gave
  vaultBalances,  \* what getVaultBalances read
  quote,          \* what getSwapQuote returned
  tokenPrograms,  \* inputTokenProgram and outputTokenProgram
  instructions,   \* the instruction list built
  result,         \* what the call returned, or what it threw
  rpc,            \* the requests sent over the connection, in the order sent
  pureCall,       \* the arguments of a call of one of the functions alone
  pureRet,        \* what that call returned
  isSubmitting,   \* the isSubmitting state of a trading component
  rendered,       \* what the last render of the component shows and its
                  \* handleTrade has captured
  trades,         \* the handleTrade invocations made so far
  activePreset,   \* useTradePresets: the preset tab that is open
  presets,        \* the configuration of each preset tab
  isEditMode,     \* whether the preset values are being edited
  editBuyPresets, \* the buy values as edited, strings
  editSellPresets \* the sell values as edited, strings

tradeVars == <<isSubmitting, rendered, trades>>
presetVars == <<activePreset, presets, isEditMode, editBuyPresets, editSellPresets>>
uiVars == <<tradeVars, presetVars>>

vars == <<pc, call, poolState, vaultBalances, quote, tokenPrograms, instructions,
          result, rpc, pureCall, pureRet, uiVars>>
callVars == <<pc, call, poolState, vaultBalances, quote, tokenPrograms, instructions,
              result>>
txVars == <<callVars, rpc>>

None == [set |-> FALSE]

TxIdle ==
  /\ pc = "idle"
  /\ call = None
  /\ poolState = None
  /\ vaultBalances = None
  /\ quote = None
  /\ tokenPrograms = None
  /\ instructions = <<>>
  /\ result = None
  /\ rpc = <<>>

PureIdle == pureCall = None /\ pureRet = None

(***************************************************************************)
(* The trading components and the trade presets.  A JavaScript number that *)
(* is no integer is kept in thousandths: 0.001 is 1 and 100 is 100000.     *)
(***************************************************************************)
PRESET_TABS == <<"P1", "P2", "P3">>

DEFAULT_PRESETS ==
  [P1 |-> [buyPresets |-> <<1, 10, 100, 1000>>,
           sellPresets |-> <<10000, 25000, 50000, 100000>>,
           slippage |-> 20000, mevProtection |-> TRUE, gasFee |-> "auto"],
   P2 |-> [buyPresets |-> <<10, 50, 100, 500>>,
           sellPresets |-> <<25000, 50000, 75000, 100000>>,
           slippage |-> 20000, mevProtection |-> TRUE, gasFee |-> "auto"],
   P3 |-> [buyPresets |-> <<100, 500, 1000, 5000>>,
           sellPresets |-> <<10000, 25000, 50000, 100000>>,
           slippage |-> 10000, mevProtection |-> FALSE, gasFee |-> 1]]

\* A component that has rendered and in which nothing has been clicked
TradeIdle ==
  /\ isSubmitting = FALSE
  /\ rendered = [isSubmitting |-> FALSE]
  /\ trades = <<>>

\* useTradePresets as its useState calls leave it, nothing stored
PresetsIdle ==
  /\ activePreset = "P1"
  /\ isEditMode = FALSE
  /\ presets = DEFAULT_PRESETS
  /\ editBuyPresets = <<>>
  /\ editSellPresets = <<>>

UiIdle == TradeIdle /\ PresetsIdle

Init == TxIdle /\ PureIdle /\ UiIdle

(***************************************************************************)
(* createSwapTransaction, one action for each stretch between two awaits   *)
(***************************************************************************)
Throw(e) ==
  /\ pc' = "error"
  /\ result' = Thrown(e)

CallCreateSwapTransaction ==
  /\ pc = "idle"
  /\ \E inputMint \in Mints, outputMint \in Mints, amountIn \in AmountsIn,
        slippageBps \in SlippageChoices, poolAddress \in PoolAddresses :
       call' = [payer |-> Payer, inputMint |-> inputMint, outputMint |-> outputMint,
                amountIn |-> amountIn, slippageBps |-> slippageBps,
                poolAddress |-> poolAddress]
  /\ pc' = "lookup"
  /\ UNCHANGED <<poolState, vaultBalances, quote, tokenPrograms, instructions, result,
                 rpc, pureCall, pureRet>>
  /\ UNCHANGED uiVars

\* Step 1: the pool, by address when one is given and by token pair otherwise
LookupPool ==
  /\ pc = "lookup"
  /\ \E rpcOk1 \in RpcOutcomes, rpcOk2 \in RpcOutcomes :
       LET lookup == PoolLookup(call.poolAddress, call.inputMint, call.outputMint,
                                rpcOk1, rpcOk2)
       IN  /\ rpc' = rpc \o lookup.requests
           /\ IF lookup.pool.found
              THEN /\ poolState' = lookup.pool.state
                   /\ pc' = "quote"
                   /\ UNCHANGED result
              ELSE /\ Throw("No Raydium CPMM pool found")
                   /\ UNCHANGED poolState
  /\ UNCHANGED <<call, vaultBalances, quote, tokenPrograms, instructions,
                 pureCall, pureRet>>
  /\ UNCHANGED uiVars

\* The rest of getSwapQuote once the balances are there
QuoteStep(balances) ==
  LET q == getSwapQuote(poolState, call.inputMint, call.outputMint, call.amountIn,
                        call.slippageBps, balances)
  IN  IF q.ok
      THEN /\ quote' = q
           /\ pc' = "programs"
           /\ UNCHANGED result
      ELSE /\ Throw(q.error)
           /\ UNCHANGED quote

\* Step 2: the vault balances (both reads joined) and the quote
GetSwapQuote ==
  /\ pc = "quote"
  /\ \E rpcOk0 \in RpcOutcomes, rpcOk1 \in RpcOutcomes, first \in {1, 2},
        b0 \in VaultAmounts, b1 \in VaultAmounts :
       LET reads ==
             <<BalanceRequest(poolState.token0Vault,
                              getTokenAccountBalance(poolState.token0Vault, rpcOk0, b0),
                              first),
               BalanceRequest(poolState.token1Vault,
                              getTokenAccountBalance(poolState.token1Vault, rpcOk1, b1),
                              3 - first)>>
           balances == getVaultBalances(poolState, reads)
       IN  /\ rpc' = rpc \o reads
           /\ IF ~balances.ok
              THEN /\ Throw(balances.error)
                   /\ UNCHANGED <<vaultBalances, quote>>
              ELSE /\ vaultBalances' = balances.value
                   /\ QuoteStep(balances.value)
  /\ UNCHANGED <<call, poolState, tokenPrograms, instructions, pureCall, pureRet>>
  /\ UNCHANGED uiVars

\* Step 3: the token program of each mint
GetTokenPrograms ==
  /\ pc = "programs"
  /\ \E rpcOk1 \in RpcOutcomes, rpcOk2 \in RpcOutcomes :
       LET inputTokenProgram  == getTokenProgramForMint(call.inputMint, rpcOk1)
           outputTokenProgram == getTokenProgramForMint(call.outputMint, rpcOk2)
       IN  /\ rpc' = rpc \o TokenProgramRequests(call.inputMint, call.outputMint,
                                                 rpcOk1, rpcOk2)
           /\ IF ~inputTokenProgram.ok
              THEN Throw(inputTokenProgram.error) /\ UNCHANGED tokenPrograms
              ELSE IF ~outputTokenProgram.ok
              THEN Throw(outputTokenProgram.error) /\ UNCHANGED tokenPrograms
              ELSE /\ tokenPrograms' = [input |-> inputTokenProgram.program,
                                        output |-> outputTokenProgram.program]
                   /\ pc' = "build"
                   /\ UNCHANGED result
  /\ UNCHANGED <<call, poolState, vaultBalances, quote, instructions, pureCall, pureRet>>
  /\ UNCHANGED uiVars

\* Steps 4 to 7: the instruction list, with the seeds the two key generations gave
BuildInstructions ==
  /\ pc = "build"
  /\ \E seedIn \in Seeds : \E seedOut \in Seeds \ {seedIn} :
       LET built == SwapInstructions(poolState, call.payer, call.inputMint,
                                     call.outputMint, quote, tokenPrograms.input,
                                     tokenPrograms.output, seedIn, seedOut)
       IN  IF built.ok
           THEN /\ instructions' = built.instructions
                /\ pc' = "blockhash"
                /\ UNCHANGED result
           ELSE /\ Throw(built.error)
                /\ UNCHANGED instructions
  /\ UNCHANGED <<call, poolState, vaultBalances, quote, tokenPrograms, rpc, pureCall,
                 pureRet>>
  /\ UNCHANGED uiVars

\* Steps 8 and 9: the recent blockhash and the transaction
GetLatestBlockhash ==
  /\ pc = "blockhash"
  /\ \E rpcOk \in RpcOutcomes :
       /\ rpc' = Append(rpc, Completed("getLatestBlockhash", "none", rpcOk))
       /\ IF rpcOk
          THEN /\ pc' = "done"
               /\ result' = [ok |-> TRUE,
                             transaction |-> [payerKey |-> call.payer,
                                              recentBlockhash |-> "Blockhash",
                                              instructions |-> instructions],
                             quote |-> quote,
                             poolState |-> poolState]
          ELSE Throw("getLatestBlockhash failed")
  /\ UNCHANGED <<call, poolState, vaultBalances, quote, tokenPrograms, instructions,
                 pureCall, pureRet>>
  /\ UNCHANGED uiVars

Next ==
  \/ CallCreateSwapTransaction
  \/ LookupPool
  \/ GetSwapQuote
  \/ GetTokenPrograms
  \/ BuildInstructions
  \/ GetLatestBlockhash

Spec == Init /\ [][Next]_vars

(***************************************************************************)
(* The pure functions, each applied to arguments drawn by its own initial  *)
(* condition                                                               *)
(***************************************************************************)
CalcAmountsIn == {BNNew(0), BNNew(1), BNNew(10000), U64Max}
CalcInputReserves == {BNNew(0), BNNew(1), BNNew(1000000), BNNew(100000000), U64Max}
CalcOutputReserves == {BNNew(0), BNNew(1), BNNew(2000000), U64Max}
CalcFees == {0, 25, 100, 400, 9999, 10000}

InitCalc ==
  /\ TxIdle
  /\ UiIdle
  /\ pureCall \in [fn : {"calculateSwapOutput"}, amountIn : CalcAmountsIn,
                   inputReserve : CalcInputReserves,
                   outputReserve : CalcOutputReserves, feeBps : CalcFees]
  /\ pureRet = None

ApplyCalculateSwapOutput ==
  /\ pureCall.fn = "calculateSwapOutput"
  /\ pureRet = None
  /\ pureRet' = calculateSwapOutput(pureCall.amountIn, pureCall.inputReserve,
                                    pureCall.outputReserve, pureCall.feeBps)
  /\ UNCHANGED <<pureCall, txVars>>
  /\ UNCHANGED uiVars

NextCalc == ApplyCalculateSwapOutput

SpecCalc == InitCalc /\ [][NextCalc]_vars

QuotePool == parsePoolState("PoolSolA", Ledger["PoolSolA"].data)
QuoteAmountsIn == {BNNew(0), BNNew(10000), U64Max}
QuoteSlippages == {0, 100, 500, 1499, 1500, 9999}
QuoteVault0 == {BNNew(0), BNNew(1000000), BNNew(99999999), BNNew(100000000)}
QuoteVault1 == {BNNew(2000000), BNNew(100000000), U64Max}

InitQuote ==
  /\ TxIdle
  /\ UiIdle
  /\ \E inputFirst \in BOOLEAN :
       pureCall \in
         [fn : {"getSwapQuote"}, poolState : {QuotePool},
          inputMint : {IF inputFirst THEN QuotePool.token0Mint ELSE QuotePool.token1Mint},
          outputMint : {IF inputFirst THEN QuotePool.token1Mint ELSE QuotePool.token0Mint},
          amountIn : QuoteAmountsIn, slippageBps : QuoteSlippages,
          vaultBalances : [vault0Balance : QuoteVault0, vault1Balance : QuoteVault1]]
  /\ pureRet = None

\* getSwapQuote: rpcOk is whether both reads of getVaultBalances returned
ApplyGetSwapQuote ==
  /\ pureCall.fn = "getSwapQuote"
  /\ pureRet = None
  /\ \E rpcOk \in BOOLEAN :
       pureRet' = IF rpcOk
                  THEN getSwapQuote(pureCall.poolState, pureCall.inputMint,
                                    pureCall.outputMint, pureCall.amountIn,
                                    pureCall.slippageBps, pureCall.vaultBalances)
                  ELSE Thrown("getTokenAccountBalance failed")
  /\ UNCHANGED <<pureCall, txVars>>
  /\ UNCHANGED uiVars

NextQuote == ApplyGetSwapQuote

SpecQuote == InitQuote /\ [][NextQuote]_vars

BuildPools == {parsePoolState(a, Ledger[a].data) : a \in {"PoolSolA", "PoolBSol", "PoolAB"}}
BuildMints == {NATIVE_MINT, "MintA", "MintB"}
BuildAmountsIn == {BNNew(0), BNNew(255), BNNew(256), BNNew(10000), U64Max, Two64}
BuildMinimums == {BNNew(0), BNNew(65535), BNSub(Two53, BNNew(1)), U64Max, Two64}

InitBuild ==
  /\ TxIdle
  /\ UiIdle
  /\ pureCall \in [fn : {"buildSwapInstruction"}, poolState : BuildPools,
                   payer : {Payer},
                   inputTokenAccount : {"InputTokenAccount"},
                   outputTokenAccount : {"OutputTokenAccount"},
                   inputMint : BuildMints, outputMint : BuildMints,
                   inputTokenProgram : {TOKEN_PROGRAM_ID},
                   outputTokenProgram : {TOKEN_2022_PROGRAM_ID},
                   amountIn : BuildAmountsIn, minimumAmountOut : BuildMinimums]
  /\ pureRet = None

ApplyBuildSwapInstruction ==
  /\ pureCall.fn = "buildSwapInstruction"
  /\ pureRet = None
  /\ pureRet' =
       buildSwapInstruction(
         pureCall.poolState, pureCall.payer, pureCall.inputTokenAccount,
         pureCall.outputTokenAccount, pureCall.inputMint, pureCall.outputMint,
         pureCall.inputTokenProgram, pureCall.outputTokenProgram,
         pureCall.amountIn, pureCall.minimumAmountOut)
  /\ UNCHANGED <<pureCall, txVars>>
  /\ UNCHANGED uiVars

NextBuild == ApplyBuildSwapInstruction

SpecBuild == InitBuild /\ [][NextBuild]_vars

\* Buffers parsePoolState is applied to: the data of a pool account cut or
\* padded to a length, at and around the offsets of the fields
ParseLengths ==
  {0, 8, 39, 40, 72, 104, 136, 168, 200, 232, 236, 264, 296, 328, 329, 330, 331, 332,
   333, 334, 341, 349, 357, 365, 373, 380, 381, 636, 637, 1000}
ParseAccounts == {"PoolSolA", "PoolBSol", "PoolAB", "PoolSolAInactive"}
ParseBuffers ==
  {[Ledger[a].data EXCEPT !.length = n] : a \in ParseAccounts, n \in ParseLengths}

InitParse ==
  /\ TxIdle
  /\ UiIdle
  /\ pureCall \in [fn : {"parsePoolState"}, address : {"PoolAddress"},
                   data : ParseBuffers]
  /\ pureRet = None

ApplyParsePoolState ==
  /\ pureCall.fn = "parsePoolState"
  /\ pureRet = None
  /\ pureRet' = [ok |-> TRUE, value |-> parsePoolState(pureCall.address, pureCall.data)]
  /\ UNCHANGED <<pureCall, txVars>>
  /\ UNCHANGED uiVars

NextParse == ApplyParsePoolState

SpecParse == InitParse /\ [][NextParse]_vars

\* The two pool lookups alone: getPoolStateByAddress at an address, and
\* findPoolByTokenPair for a pair of mints followed by the same search with
\* the two mints exchanged
LocateAddresses ==
  {"PoolSolA", "PoolSolAInactive", "PoolBSol", "PoolAB", "Config1", "Wallet", "MintA",
   "NoSuchAccount"}
LocateMints == {NATIVE_MINT, "MintA", "MintB", "MintC", "MintX"}

InitLocate ==
  /\ TxIdle
  /\ UiIdle
  /\ \/ pureCall \in [fn : {"getPoolStateByAddress"}, poolAddress : LocateAddresses]
     \/ pureCall \in [fn : {"findPoolByTokenPair"}, tokenA : LocateMints,
                      tokenB : LocateMints]
  /\ pureRet = None

ApplyGetPoolStateByAddress ==
  /\ pureCall.fn = "getPoolStateByAddress"
  /\ pureRet = None
  /\ \E rpcOk \in RpcOutcomes :
       /\ rpc' = <<Completed("getAccountInfo", pureCall.poolAddress, rpcOk)>>
       /\ pureRet' = [first |-> getPoolStateByAddress(pureCall.poolAddress, rpcOk)]
  /\ UNCHANGED <<pureCall, callVars>>
  /\ UNCHANGED uiVars

ApplyFindPoolByTokenPair ==
  /\ pureCall.fn = "findPoolByTokenPair"
  /\ pureRet = None
  /\ \E rpcOk1 \in RpcOutcomes, rpcOk2 \in RpcOutcomes :
       /\ rpc' = SearchRequests(pureCall.tokenA, pureCall.tokenB, rpcOk1, rpcOk2)
       /\ pureRet' = [first |-> findPoolByTokenPair(pureCall.tokenA, pureCall.tokenB,
                                                    rpcOk1, rpcOk2)]
  /\ UNCHANGED <<pureCall, callVars>>
  /\ UNCHANGED uiVars

\* The second call, findPoolByTokenPair(tokenB, tokenA)
ApplyFindPoolByTokenPairExchanged ==
  /\ pureCall.fn = "findPoolByTokenPair"
  /\ pureRet # None
  /\ DOMAIN pureRet = {"first"}
  /\ \E rpcOk1 \in RpcOutcomes, rpcOk2 \in RpcOutcomes :
       /\ rpc' = rpc \o SearchRequests(pureCall.tokenB, pureCall.tokenA, rpcOk1, rpcOk2)
       /\ pureRet' = [first |-> pureRet.first,
                      second |-> findPoolByTokenPair(pureCall.tokenB, pureCall.tokenA,
                                                     rpcOk1, rpcOk2)]
  /\ UNCHANGED <<pureCall, callVars>>
  /\ UNCHANGED uiVars

NextLocate ==
  \/ ApplyGetPoolStateByAddress
  \/ ApplyFindPoolByTokenPair
  \/ ApplyFindPoolByTokenPairExchanged

SpecLocate == InitLocate /\ [][NextLocate]_vars

\* getVaultBalances alone, a step for each of its two reads: both are sent
\* before either is awaited, they complete in either order, and the call
\* goes on when Promise.all settles
VaultPools ==
  {parsePoolState(a, Ledger[a].data) : a \in {"PoolSolA", "PoolBSol", "PoolAB", "Config1"}}
VaultReadAmounts == {BNNew(0), BNNew(1000000), BNNew(200000000)}

InitVaults ==
  /\ TxIdle
  /\ UiIdle
  /\ pureCall \in [fn : {"getVaultBalances"}, poolState : VaultPools]
  /\ pureRet = None

CallGetVaultBalances ==
  /\ pureCall.fn = "getVaultBalances"
  /\ rpc = <<>>
  /\ rpc' = <<Request("getTokenAccountBalance", pureCall.poolState.token0Vault,
                      "pending", "none", 0),
              Request("getTokenAccountBalance", pureCall.poolState.token1Vault,
                      "pending", "none", 0)>>
  /\ UNCHANGED <<pureCall, pureRet, callVars>>
  /\ UNCHANGED uiVars

\* The requests once request i has completed with info, and what the call has
\* returned or thrown by then
VaultReadCompleted(i, info) ==
  LET rank  == 1 + Cardinality({j \in 1..Len(rpc) : rpc[j].status # "pending"})
      reads == [rpc EXCEPT ![i] = BalanceRequest(rpc[i].arg, info, rank)]
  IN  /\ rpc' = reads
      /\ pureRet' = IF pureRet = None /\ PromiseAllSettled(reads)
                    THEN getVaultBalances(pureCall.poolState, reads)
                    ELSE pureRet

CompleteVaultRead ==
  /\ pureCall.fn = "getVaultBalances"
  /\ \E i \in 1..Len(rpc), rpcOk \in RpcOutcomes, value \in VaultReadAmounts :
       /\ rpc[i].status = "pending"
       /\ VaultReadCompleted(i, getTokenAccountBalance(rpc[i].arg, rpcOk, value))
  /\ UNCHANGED <<pureCall, callVars>>
  /\ UNCHANGED uiVars

NextVaults ==
  \/ CallGetVaultBalances
  \/ CompleteVaultRead

SpecVaults == InitVaults /\ [][NextVaults]_vars

\* findPoolByTokenPair alone, a step for each of its two searches: both are
\* sent before either is awaited, they complete in either order, and the
\* candidates are looked at once Promise.all has both results
InitSearch ==
  /\ TxIdle
  /\ UiIdle
  /\ pureCall \in [fn : {"findPoolByTokenPair"}, tokenA : LocateMints,
                   tokenB : LocateMints]
  /\ pureRet = None

CallFindPoolByTokenPair ==
  /\ pureCall.fn = "findPoolByTokenPair"
  /\ rpc = <<>>
  /\ rpc' = <<Request("getProgramAccounts", <<pureCall.tokenA, pureCall.tokenB>>,
                      "pending", "none", 0),
              Request("getProgramAccounts", <<pureCall.tokenB, pureCall.tokenA>>,
                      "pending", "none", 0)>>
  /\ UNCHANGED <<pureCall, pureRet, callVars>>
  /\ UNCHANGED uiVars

\* The requests once search i has completed, and what the call has returned
\* by then: nothing while a search is pending
SearchCompleted(i, rpcOk) ==
  LET rank     == 1 + Cardinality({j \in 1..Len(rpc) : rpc[j].status # "pending"})
      searches == [rpc EXCEPT ![i] = Request(rpc[i].method, rpc[i].arg,
                                             IF rpcOk THEN "ok" ELSE "failed",
                                             "none", rank)]
  IN  /\ rpc' = searches
      /\ pureRet' = IF \A j \in 1..Len(searches) : searches[j].status # "pending"
                    THEN [first |-> FirstActivePool(MergedAccounts(searches))]
                    ELSE pureRet

CompleteSearch ==
  /\ pureCall.fn = "findPoolByTokenPair"
  /\ \E i \in 1..Len(rpc), rpcOk \in RpcOutcomes :
       /\ rpc[i].status = "pending"
       /\ SearchCompleted(i, rpcOk)
  /\ UNCHANGED <<pureCall, callVars>>
  /\ UNCHANGED uiVars

NextSearch ==
  \/ CallFindPoolByTokenPair
  \/ CompleteSearch

SpecSearch == InitSearch /\ [][NextSearch]_vars

\* Two createSwapTransaction calls of one payer that have both reached the
\* handling of the token accounts (steps 4a and 4b), interleaved at the awaits
\* of createTempWsolAccount.  Each call of createTempWsolAccount makes its own
\* Keypair.generate(); the key generated is random, and a seed it gives is
\* taken to differ from every seed generated before.
TempCalls == 1..2
TempMints == {NATIVE_MINT, "MintA"}
TempAmountsIn == {BNNew(10000), Two53}
TempStart ==
  [step |-> "input", tempWsolInputAccount |-> NoTempAccount,
   tempWsolOutputAccount |-> NoTempAccount, seeds |-> <<>>]

InitTemps ==
  /\ TxIdle
  /\ UiIdle
  /\ pureCall \in [TempCalls -> [fn : {"createSwapTransaction"}, payer : {Payer},
                                 inputMint : TempMints, outputMint : TempMints,
                                 amountIn : TempAmountsIn]]
  /\ pureRet = [k \in TempCalls |-> TempStart]

\* The seeds generated so far, by either call
GeneratedSeeds ==
  UNION {{pureRet[k].seeds[i] : i \in 1..Len(pureRet[k].seeds)} : k \in TempCalls}

\* The call after createTempWsolAccount returned temp for its input account
InputAccountHandled(r, temp, seed) ==
  IF temp.ok
  THEN [r EXCEPT !.step = "output", !.seeds = Append(@, seed),
                 !.tempWsolInputAccount = TempAccount(temp.wsolAccount)]
  ELSE [r EXCEPT !.step = "error", !.seeds = Append(@, seed)]

\* Step 4a of call k
HandleInputTokenAccount(k) ==
  /\ pureRet[k].step = "input"
  /\ IF pureCall[k].inputMint = NATIVE_MINT
     THEN \E seed \in Seeds \ GeneratedSeeds :
            pureRet' =
              [pureRet EXCEPT ![k] =
                 InputAccountHandled(@, createTempWsolAccount(pureCall[k].payer,
                                                              pureCall[k].amountIn, seed),
                                     seed)]
     ELSE pureRet' = [pureRet EXCEPT ![k].step = "output"]
  /\ UNCHANGED <<pureCall, txVars>>
  /\ UNCHANGED uiVars

\* The call after createTempWsolAccount returned temp for its output account
OutputAccountHandled(r, temp, seed) ==
  [r EXCEPT !.step = "swap", !.seeds = Append(@, seed),
            !.tempWsolOutputAccount = TempAccount(temp.wsolAccount)]

\* Step 4b of call k
HandleOutputTokenAccount(k) ==
  /\ pureRet[k].step = "output"
  /\ IF pureCall[k].outputMint = NATIVE_MINT
     THEN \E seed \in Seeds \ GeneratedSeeds :
            pureRet' =
              [pureRet EXCEPT ![k] =
                 OutputAccountHandled(@, createTempWsolAccount(pureCall[k].payer,
                                                               BNNew(0), seed),
                                      seed)]
     ELSE pureRet' = [pureRet EXCEPT ![k].step = "swap"]
  /\ UNCHANGED <<pureCall, txVars>>
  /\ UNCHANGED uiVars

NextTemps ==
  \E k \in TempCalls :
    \/ HandleInputTokenAccount(k)
    \/ HandleOutputTokenAccount(k)

SpecTemps == InitTemps /\ [][NextTemps]_vars

(***************************************************************************)
(* handleTrade of a trading component (TradingPanel; InstantTradeWindow    *)
(* and the chart's trade window run the same steps).  An invocation runs   *)
(* up to its first await inside the click that made it, and each later     *)
(* stretch runs when the promise it awaits settles.  React renders the     *)
(* update a click handler made before the next event is handled, and the   *)
(* update made after an await in a render of its own, later.               *)
(***************************************************************************)
MaxTrades == 3

TRADE_STEPS == <<"create", "sign", "send", "confirm">>

\* How the calls handleTrade awaits can end: createTransaction returns a
\* transaction or throws, signTransaction returns or throws, sendTransaction
\* returns a signature or throws, and confirmTransaction returns a
\* confirmation, with or without an on-chain error, or throws
CreateOutcomes == {"transaction", "thrown"}
SignOutcomes == {"signed", "thrown"}
SendOutcomes == {"signature", "thrown"}
ConfirmOutcomes == {"confirmed", "err", "thrown"}

\* An invocation that found isSubmitting set and returned
TradeReturned ==
  [pc |-> "returned", steps |-> <<>>, toast |-> "none", confirmation |-> "none",
   refresh |-> FALSE, released |-> FALSE]

\* An invocation that has set isSubmitting and awaits createTransaction
TradeStarted ==
  [pc |-> "createTransaction", steps |-> <<"create">>,
   toast |-> "Creating swap transaction...", confirmation |-> "none",
   refresh |-> FALSE, released |-> FALSE]

TradeInFlight(t) == t.pc \in {"createTransaction", "sendTransaction", "confirmTransaction"}

\* mutation: the submit guard is missing
handleTradeReturnsEarly_NoGuard(closure) == FALSE

\* if (isSubmitting) return, isSubmitting being the value handleTrade captured
\* in the render that made it
handleTradeReturnsEarly(closure) == closure.isSubmitting

\* mutation: isSubmitting is reset at the end of the try block only
IsSubmittingAfterTrade_TryOnly(current, failed) == IF failed THEN current ELSE FALSE

\* finally { setIsSubmitting(false) }, whether the try block ended or threw
IsSubmittingAfterTrade(current, failed) == FALSE

\* catch: the error is logged and shown, then finally
TradeFailed(t, message) ==
  [t EXCEPT !.pc = "ended", !.toast = message, !.released = TRUE]

\* mutation: the on-chain error of the confirmation is not looked at
TradeConfirmed_ErrIgnored(t, confirmation) ==
  [t EXCEPT !.pc = "ended", !.confirmation = confirmation,
            !.toast = "Trade successful!", !.refresh = TRUE, !.released = TRUE]

\* The end of the try block once confirmTransaction has returned: an on-chain
\* error is thrown as "Trade failed on-chain", and otherwise the success is
\* shown and refreshBalance is scheduled
TradeConfirmed(t, confirmation) ==
  IF confirmation = "err"
  THEN [TradeFailed(t, "Trade failed on-chain") EXCEPT !.confirmation = confirmation]
  ELSE [t EXCEPT !.pc = "ended", !.confirmation = confirmation,
                 !.toast = "Trade successful!", !.refresh = TRUE, !.released = TRUE]

InitTrade ==
  /\ TxIdle
  /\ PureIdle
  /\ UiIdle

\* A click on the trade button: handleTrade up to its first await, and the
\* render of the update it made
ClickTrade ==
  /\ Len(trades) < MaxTrades
  /\ IF handleTradeReturnsEarly(rendered)
     THEN /\ trades' = Append(trades, TradeReturned)
          /\ UNCHANGED <<isSubmitting, rendered>>
     ELSE /\ trades' = Append(trades, TradeStarted)
          /\ isSubmitting' = TRUE
          /\ rendered' = [isSubmitting |-> TRUE]
  /\ UNCHANGED <<txVars, pureCall, pureRet, presetVars>>

\* The invocation i ends in t: the finally block has run
TradeEnds(i, t, failed) ==
  /\ trades' = [trades EXCEPT ![i] = t]
  /\ isSubmitting' = IsSubmittingAfterTrade(isSubmitting, failed)
  /\ UNCHANGED rendered

TradeGoesOn(i, t) ==
  /\ trades' = [trades EXCEPT ![i] = t]
  /\ UNCHANGED <<isSubmitting, rendered>>

\* createTransaction has settled: the transaction is signed and sent
CreateTransactionSettled ==
  /\ \E i \in 1..Len(trades), created \in CreateOutcomes, signed \in SignOutcomes :
       /\ trades[i].pc = "createTransaction"
       /\ IF created = "thrown"
          THEN TradeEnds(i, TradeFailed(trades[i], "createTransaction failed"), TRUE)
          ELSE IF signed = "thrown"
          THEN TradeEnds(i, TradeFailed([trades[i] EXCEPT !.steps = Append(@, "sign")],
                                        "signTransaction failed"), TRUE)
          ELSE TradeGoesOn(i, [trades[i] EXCEPT !.pc = "sendTransaction",
                                                !.steps = @ \o <<"sign", "send">>,
                                                !.toast = "Sending transaction..."])
  /\ UNCHANGED <<txVars, pureCall, pureRet, presetVars>>

\* sendTransaction has settled
SendTransactionSettled ==
  /\ \E i \in 1..Len(trades), sent \in SendOutcomes :
       /\ trades[i].pc = "sendTransaction"
       /\ IF sent = "thrown"
          THEN TradeEnds(i, TradeFailed(trades[i], "sendTransaction failed"), TRUE)
          ELSE TradeGoesOn(i, [trades[i] EXCEPT !.pc = "confirmTransaction",
                                                !.steps = Append(@, "confirm"),
                                                !.toast = "Confirming transaction..."])
  /\ UNCHANGED <<txVars, pureCall, pureRet, presetVars>>

\* confirmTransaction has settled
ConfirmTransactionSettled ==
  /\ \E i \in 1..Len(trades), confirmation \in ConfirmOutcomes :
       /\ trades[i].pc = "confirmTransaction"
       /\ IF confirmation = "thrown"
          THEN TradeEnds(i, TradeFailed(trades[i], "confirmTransaction failed"), TRUE)
          ELSE TradeEnds(i, TradeConfirmed(trades[i], confirmation),
                         TradeConfirmed(trades[i], confirmation).toast
                           # "Trade successful!")
  /\ UNCHANGED <<txVars, pureCall, pureRet, presetVars>>

\* The render of an update made after an await
Render ==
  /\ rendered.isSubmitting # isSubmitting
  /\ rendered' = [isSubmitting |-> isSubmitting]
  /\ UNCHANGED <<isSubmitting, trades, txVars, pureCall, pureRet, presetVars>>

NextTrade ==
  \/ ClickTrade
  \/ CreateTransactionSettled
  \/ SendTransactionSettled
  \/ ConfirmTransactionSettled
  \/ Render

SpecTrade == InitTrade /\ [][NextTrade]_vars

\* Every call handleTrade awaits settles, and React renders a pending update
SpecTradeFair ==
  /\ SpecTrade
  /\ WF_vars(CreateTransactionSettled)
  /\ WF_vars(SendTransactionSettled)
  /\ WF_vars(ConfirmTransactionSettled)
  /\ WF_vars(Render)

(***************************************************************************)
(* useTradePresets: the edit mode of the preset tabs and handleSaveEdit.   *)
(* pureCall keeps what handleSaveEdit saw when it was called and pureRet   *)
(* what it returned.                                                       *)
(***************************************************************************)
\* The number of values a list of presets must have to be saved
PRESET_COUNT == 4

\* String(v) of the numbers the default presets hold
NumberString ==
  (1 :> "0.001") @@ (10 :> "0.01") @@ (50 :> "0.05") @@ (100 :> "0.1") @@
  (500 :> "0.5") @@ (1000 :> "1") @@ (5000 :> "5") @@ (10000 :> "10") @@
  (25000 :> "25") @@ (50000 :> "50") @@ (75000 :> "75") @@ (100000 :> "100")

\* What is typed into an input of the edit mode
EditStrings == {"", "0", "-1", "0.5", "2.50"}

\* The inputs of the edit mode that are typed into
EditIndices == {1, 4}

\* parseFloat(v) of the strings an edit list can hold; a string that is not
\* in the domain parses to NaN
ParsedFloat ==
  ("0.001" :> 1) @@ ("0.01" :> 10) @@ ("0.05" :> 50) @@ ("0.1" :> 100) @@
  ("0.5" :> 500) @@ ("1" :> 1000) @@ ("5" :> 5000) @@ ("10" :> 10000) @@
  ("25" :> 25000) @@ ("50" :> 50000) @@ ("75" :> 75000) @@ ("100" :> 100000) @@
  ("0" :> 0) @@ ("-1" :> (0 - 1000)) @@ ("2.50" :> 2500)

\* parseFloat(v) || 0: NaN and 0 give 0
ParseFloatOrZero(v) == IF v \in DOMAIN ParsedFloat THEN ParsedFloat[v] ELSE 0

IsPositive(v) == v > 0

\* edit.map((v) => parseFloat(v) || 0).filter((v) => v > 0)
ParsedPresets(edit) ==
  SelectSeq([i \in 1..Len(edit) |-> ParseFloatOrZero(edit[i])], IsPositive)

\* list.map(String)
PresetStrings(list) == [i \in 1..Len(list) |-> NumberString[list[i]]]

\* mutation: only the buy values are counted
SaveAccepted_BuyOnly(newBuyPresets, newSellPresets) ==
  Len(newBuyPresets) = PRESET_COUNT

\* newBuyPresets.length === 4 && newSellPresets.length === 4
SaveAccepted(newBuyPresets, newSellPresets) ==
  Len(newBuyPresets) = PRESET_COUNT /\ Len(newSellPresets) = PRESET_COUNT

\* { ...prev, [activePreset]: { ...prev[activePreset], buyPresets, sellPresets } }
PresetsAfterSave(prev, active, newBuyPresets, newSellPresets) ==
  [prev EXCEPT ![active] = [@ EXCEPT !.buyPresets = newBuyPresets,
                                     !.sellPresets = newSellPresets]]

InitPresets ==
  /\ TxIdle
  /\ PureIdle
  /\ UiIdle

\* The pencil button: setIsEditMode(true), and the effect that fills the
\* edit lists from the active preset
EnterEditMode ==
  /\ pureRet = None
  /\ ~isEditMode
  /\ isEditMode' = TRUE
  /\ editBuyPresets' = PresetStrings(presets[activePreset].buyPresets)
  /\ editSellPresets' = PresetStrings(presets[activePreset].sellPresets)
  /\ UNCHANGED <<activePreset, presets, txVars, pureCall, pureRet, tradeVars>>

\* handleSetActivePreset(preset)
HandleSetActivePreset ==
  /\ pureRet = None
  /\ \E i \in 1..Len(PRESET_TABS) :
       /\ activePreset' = PRESET_TABS[i]
       /\ IF isEditMode
          THEN /\ editBuyPresets' = PresetStrings(presets[PRESET_TABS[i]].buyPresets)
               /\ editSellPresets' = PresetStrings(presets[PRESET_TABS[i]].sellPresets)
          ELSE UNCHANGED <<editBuyPresets, editSellPresets>>
  /\ UNCHANGED <<isEditMode, presets, txVars, pureCall, pureRet, tradeVars>>

\* handleEditBuyChange(index, value)
HandleEditBuyChange ==
  /\ pureRet = None
  /\ isEditMode
  /\ \E index \in EditIndices, value \in EditStrings :
       editBuyPresets' = [editBuyPresets EXCEPT ![index] = value]
  /\ UNCHANGED <<activePreset, presets, isEditMode, editSellPresets>>
  /\ UNCHANGED <<txVars, pureCall, pureRet, tradeVars>>

\* handleEditSellChange(index, value)
HandleEditSellChange ==
  /\ pureRet = None
  /\ isEditMode
  /\ \E index \in EditIndices, value \in EditStrings :
       editSellPresets' = [editSellPresets EXCEPT ![index] = value]
  /\ UNCHANGED <<activePreset, presets, isEditMode, editBuyPresets>>
  /\ UNCHANGED <<txVars, pureCall, pureRet, tradeVars>>

\* handleClose: the window is closed and the edit mode left
HandleClose ==
  /\ pureRet = None
  /\ isEditMode
  /\ isEditMode' = FALSE
  /\ UNCHANGED <<activePreset, presets, editBuyPresets, editSellPresets>>
  /\ UNCHANGED <<txVars, pureCall, pureRet, tradeVars>>

\* The Save button: handleSaveEdit()
HandleSaveEdit ==
  /\ pureRet = None
  /\ isEditMode
  /\ pureCall' = [fn |-> "handleSaveEdit", activePreset |-> activePreset,
                  presets |-> presets, editBuyPresets |-> editBuyPresets,
                  editSellPresets |-> editSellPresets]
  /\ LET newBuyPresets  == ParsedPresets(editBuyPresets)
         newSellPresets == ParsedPresets(editSellPresets)
     IN  IF SaveAccepted(newBuyPresets, newSellPresets)
         THEN /\ presets' = PresetsAfterSave(presets, activePreset,
                                             newBuyPresets, newSellPresets)
              /\ isEditMode' = FALSE
              /\ pureRet' = [returned |-> TRUE,
                             toast |-> "Presets saved successfully!"]
         ELSE /\ pureRet' = [returned |-> FALSE,
                             toast |-> "Please fill in all 4 buy and sell values"]
              /\ UNCHANGED <<presets, isEditMode>>
  /\ UNCHANGED <<activePreset, editBuyPresets, editSellPresets, txVars, tradeVars>>

NextPresets ==
  \/ EnterEditMode
  \/ HandleSetActivePreset
  \/ HandleEditBuyChange
  \/ HandleEditSellChange
  \/ HandleClose
  \/ HandleSaveEdit

SpecPresets == InitPresets /\ [][NextPresets]_vars

(***************************************************************************)
(* Properties                                                              *)
(***************************************************************************)
Done == pc = "done"
TxInstructions == result.transaction.instructions
IsInputSOL == call.inputMint = NATIVE_MINT
IsOutputSOL == call.outputMint = NATIVE_MINT
IndicesOfKind(ins, kind) == {i \in 1..Len(ins) : ins[i].kind = kind}
SwapIndex(ins) == CHOOSE i \in 1..Len(ins) : ins[i].kind = "swap"

\* C1: the instructions of every transaction createSwapTransaction returns are,
\* in this order: compute-unit limit, compute-unit price, create and init of the
\* temporary input account (native input only), create and init of the temporary
\* output account (native output only), the idempotent create of the output
\* associated token account (non-native output only), the swap, the close of
\* the temporary output account, the close of the temporary input account; no
\* close comes before the swap.
ThmC1_InstructionOrder ==
  Done =>
    LET ins  == TxInstructions
        n    == Len(ins)
        s    == SwapIndex(ins)
        inAcct  == ins[s].keys[5].pubkey
        outAcct == ins[s].keys[6].pubkey
        o    == IF IsInputSOL THEN 5 ELSE 3
        expected ==
          <<"setComputeUnitLimit", "setComputeUnitPrice">>
          \o (IF IsInputSOL THEN <<"createAccountWithSeed", "initializeAccount">>
              ELSE <<>>)
          \o (IF IsOutputSOL THEN <<"createAccountWithSeed", "initializeAccount">>
              ELSE <<"createAssociatedTokenAccountIdempotent">>)
          \o <<"swap">>
          \o (IF IsOutputSOL THEN <<"closeAccount">> ELSE <<>>)
          \o (IF IsInputSOL THEN <<"closeAccount">> ELSE <<>>)
    IN  /\ [i \in 1..n |-> ins[i].kind] = expected
        /\ \A i \in IndicesOfKind(ins, "closeAccount") : s < i
        /\ IsInputSOL => /\ ins[3].newAccountPubkey = inAcct
                         /\ ins[4].account = inAcct
                         /\ ins[n].account = inAcct
        /\ IsOutputSOL => /\ ins[o].newAccountPubkey = outAcct
                          /\ ins[o + 1].account = outAcct
                          /\ ins[s + 1].account = outAcct
        /\ ~IsOutputSOL => ins[s - 1].associatedToken = outAcct

WitC1_NativeInputTransaction ==
  Done /\ IsInputSOL /\ ~IsOutputSOL /\ Len(TxInstructions) = 7

\* C2: a returned transaction holds, for a native input, exactly one create/init
\* pair of the temporary input account before the swap and exactly one close of
\* that account after it; the same for a native output; no create, init or close
\* of a temporary account otherwise; every account it creates it also closes.
ThmC2_TempAccountLifecycle ==
  Done =>
    LET ins == TxInstructions
        s   == SwapIndex(ins)
        creates == IndicesOfKind(ins, "createAccountWithSeed")
        inits   == IndicesOfKind(ins, "initializeAccount")
        closes  == IndicesOfKind(ins, "closeAccount")
        natives == (IF IsInputSOL THEN 1 ELSE 0) + (IF IsOutputSOL THEN 1 ELSE 0)
        OneLifecycle(acct) ==
          \E i \in 1..(s - 2) : \E j \in (s + 1)..Len(ins) :
            /\ {c \in creates : ins[c].newAccountPubkey = acct} = {i}
            /\ {c \in inits : ins[c].account = acct} = {i + 1}
            /\ {c \in closes : ins[c].account = acct} = {j}
    IN  /\ IsInputSOL => OneLifecycle(ins[s].keys[5].pubkey)
        /\ IsOutputSOL => OneLifecycle(ins[s].keys[6].pubkey)
        /\ Cardinality(creates) = natives
        /\ Cardinality(inits) = natives
        /\ Cardinality(closes) = natives
        /\ \A c \in creates : \E j \in closes :
             j > c /\ ins[j].account = ins[c].newAccountPubkey

WitC2_NativeOutputTransaction ==
  Done /\ ~IsInputSOL /\ IsOutputSOL /\ Len(TxInstructions) = 6

Returned == pureRet # None
ReturnedOk == pureRet # None /\ pureRet.ok
QuoteInputReserve ==
  IF pureCall.inputMint = pureCall.poolState.token0Mint
  THEN pureCall.vaultBalances.vault0Balance
  ELSE pureCall.vaultBalances.vault1Balance

\* C3: every quote getSwapQuote returns has minimumAmountOut <= amountOut, for
\* any amountIn and reserves and any requested slippage in [0, 10000) bps.
ThmC3_MinimumAtMostAmountOut ==
  ReturnedOk => BNLte(pureRet.minimumAmountOut, pureRet.amountOut)

WitC3_MinimumBelowAmountOut ==
  ReturnedOk /\ BNLt(pureRet.minimumAmountOut, pureRet.amountOut)
             /\ pureCall.slippageBps = 9999

\* C4: the swap instruction has exactly 13 accounts, in the order payer (signer,
\* writable), pool authority, config, pool (writable), input token account
\* (writable), output token account (writable), input vault (writable), output
\* vault (writable), input token program, output token program, input mint,
\* output mint, observation (writable), whatever the direction of the swap;
\* only the payer signs.
ThmC4_SwapAccountList ==
  ReturnedOk =>
    LET k  == pureRet.keys
        ps == pureCall.poolState
    IN  /\ Len(k) = 13
        /\ k[1] = [pubkey |-> pureCall.payer, isSigner |-> TRUE, isWritable |-> TRUE]
        /\ k[2] = [pubkey |-> "GpMZbSM2GgvTKHJirzeGfMFoaZ8UR2X7F4v8vHTvxFbL",
                   isSigner |-> FALSE, isWritable |-> FALSE]
        /\ k[3] = [pubkey |-> ps.ammConfig, isSigner |-> FALSE, isWritable |-> FALSE]
        /\ k[4] = [pubkey |-> ps.address, isSigner |-> FALSE, isWritable |-> TRUE]
        /\ k[5] = [pubkey |-> pureCall.inputTokenAccount, isSigner |-> FALSE,
                   isWritable |-> TRUE]
        /\ k[6] = [pubkey |-> pureCall.outputTokenAccount, isSigner |-> FALSE,
                   isWritable |-> TRUE]
        /\ {k[7].pubkey, k[8].pubkey} = {ps.token0Vault, ps.token1Vault}
        /\ pureCall.inputMint = ps.token0Mint => k[7].pubkey = ps.token0Vault
        /\ pureCall.inputMint = ps.token1Mint => k[7].pubkey = ps.token1Vault
        /\ \A i \in {7, 8} : ~k[i].isSigner /\ k[i].isWritable
        /\ k[9] = [pubkey |-> pureCall.inputTokenProgram, isSigner |-> FALSE,
                   isWritable |-> FALSE]
        /\ k[10] = [pubkey |-> pureCall.outputTokenProgram, isSigner |-> FALSE,
                    isWritable |-> FALSE]
        /\ k[11] = [pubkey |-> pureCall.inputMint, isSigner |-> FALSE,
                    isWritable |-> FALSE]
        /\ k[12] = [pubkey |-> pureCall.outputMint, isSigner |-> FALSE,
                    isWritable |-> FALSE]
        /\ k[13] = [pubkey |-> ps.observationKey, isSigner |-> FALSE,
                    isWritable |-> TRUE]
        /\ \A i \in 1..Len(k) : k[i].isSigner <=> i = 1

WitC4_ReverseDirectionInstruction ==
  ReturnedOk /\ pureCall.inputMint = pureCall.poolState.token1Mint
             /\ pureCall.outputMint = pureCall.poolState.token0Mint

\* C5: in the swap instruction of a returned transaction, account 7 is
\* token0Vault exactly when inputMint is the pool's token0Mint and token1Vault
\* exactly when inputMint is its token1Mint, and account 8 is the vault that
\* holds outputMint.
CexC5_VaultsMatchMints ==
  Done =>
    LET k  == TxInstructions[SwapIndex(TxInstructions)].keys
        ps == poolState
    IN  /\ k[7].pubkey = ps.token0Vault <=> call.inputMint = ps.token0Mint
        /\ k[7].pubkey = ps.token1Vault <=> call.inputMint = ps.token1Mint
        /\ \/ call.outputMint = ps.token0Mint /\ k[8].pubkey = ps.token0Vault
           \/ call.outputMint = ps.token1Mint /\ k[8].pubkey = ps.token1Vault

\* C6: minimumAmountOut = floor(amountOut * (10000 - effective) / 10000) with
\* effective = max(requested, floor), the floor being 1500 bps when the input
\* reserve is below 100,000,000 and 500 bps otherwise.
ThmC6_SlippagePolicy ==
  ReturnedOk =>
    LET floorBps  == IF BNLt(QuoteInputReserve, BNNew(100000000)) THEN 1500 ELSE 500
        effective == IF pureCall.slippageBps >= floorBps THEN pureCall.slippageBps
                     ELSE floorBps
        scaled    == BNMul(pureRet.amountOut, BNNew(10000 - effective))
        m         == pureRet.minimumAmountOut
    IN  /\ BNLte(BNMul(m, BNNew(10000)), scaled)
        /\ BNLt(scaled, BNMul(BNAdd(m, BNNew(1)), BNNew(10000)))
        /\ BNLt(QuoteInputReserve, BNNew(100000000)) =>
             BNLte(BNMul(m, BNNew(10000)), BNMul(pureRet.amountOut, BNNew(8500)))

WitC6_LowLiquidityFloorApplied ==
  /\ ReturnedOk
  /\ BNLt(QuoteInputReserve, BNNew(100000000))
  /\ pureCall.slippageBps = 100
  /\ ~BNIsZero(pureRet.minimumAmountOut)

\* C7: for inputReserve > 0 and feeBps in [0, 10000), calculateSwapOutput
\* returns amountOut = floor(effectiveIn * outputReserve / (inputReserve +
\* effectiveIn)) with effectiveIn = floor(amountIn * (10000 - feeBps) / 10000).
ThmC7_ConstantProductOutput ==
  (Returned /\ ~BNIsZero(pureCall.inputReserve)) =>
    LET effectiveIn == AmountInAfterFee(pureCall.amountIn, pureCall.feeBps)
        afterFee    == BNMul(pureCall.amountIn, BNNew(10000 - pureCall.feeBps))
        numerator   == BNMul(effectiveIn, pureCall.outputReserve)
        denominator == BNAdd(pureCall.inputReserve, effectiveIn)
    IN  /\ pureRet.ok
        /\ BNLte(BNMul(effectiveIn, BNNew(10000)), afterFee)
        /\ BNLt(afterFee, BNMul(BNAdd(effectiveIn, BNNew(1)), BNNew(10000)))
        /\ BNLte(BNMul(pureRet.amountOut, denominator), numerator)
        /\ BNLt(numerator, BNMul(BNAdd(pureRet.amountOut, BNNew(1)), denominator))

WitC7_FeeChangesOutput ==
  /\ ReturnedOk
  /\ pureCall.feeBps = 400
  /\ pureCall.amountIn = BNNew(10000)
  /\ ~BNIsZero(pureRet.amountOut)
  /\ BNLt(pureRet.amountOut, pureCall.outputReserve)

ExampleCalc ==
  pureCall = [fn |-> "calculateSwapOutput", amountIn |-> BNNew(10000),
              inputReserve |-> BNNew(1000000), outputReserve |-> BNNew(2000000),
              feeBps |-> 100]

\* C8 (as amended): for inputReserve = 1,000,000, outputReserve = 2,000,000,
\* feeBps = 100 and amountIn = 10,000 the calculation gives effectiveIn = 9,900
\* and amountOut = 19,605, the floor of 9,900 * 2,000,000 / 1,009,900.
ThmC8_ExampleAmountOut ==
  (Returned /\ ExampleCalc) =>
    /\ pureRet.ok
    /\ AmountInAfterFee(pureCall.amountIn, pureCall.feeBps) = BNNew(9900)
    /\ pureRet.amountOut = BNNew(19605)

\* C8 as the claim states it: the same example gives amountOut = 19,604.
CexC8_ExampleAmountOut19604 ==
  (Returned /\ ExampleCalc) =>
    /\ pureRet.ok
    /\ AmountInAfterFee(pureCall.amountIn, pureCall.feeBps) = BNNew(9900)
    /\ pureRet.amountOut = BNNew(19604)

WitC8_ExampleCalculated == ReturnedOk /\ ExampleCalc

ExampleQuote ==
  /\ pureCall.amountIn = BNNew(10000)
  /\ pureCall.slippageBps = 100
  /\ pureCall.inputMint = pureCall.poolState.token0Mint
  /\ pureCall.vaultBalances = [vault0Balance |-> BNNew(1000000),
                               vault1Balance |-> BNNew(2000000)]

\* C9 (as amended): for the same example with a requested slippage of 100 bps
\* the quote's minimumAmountOut is floor(19,605 * 8500 / 10000) = 16,664: the
\* input reserve is below 100,000,000, so the slippage used is 1500 bps.
ThmC9_ExampleMinimumAmountOut ==
  (ReturnedOk /\ ExampleQuote) =>
    /\ pureRet.amountOut = BNNew(19605)
    /\ pureRet.minimumAmountOut = BNNew(16664)

\* C9 as the claim states it: the example's minimumAmountOut is 19,407.
CexC9_ExampleMinimum19407 ==
  (ReturnedOk /\ ExampleQuote) => pureRet.minimumAmountOut = BNNew(19407)

WitC9_ExampleQuoted == ReturnedOk /\ ExampleQuote

\* The unsigned integer a sequence of bytes holds, least significant first
RECURSIVE ReadUIntLE(_)
ReadUIntLE(bytes) ==
  IF bytes = <<>> THEN BNNew(0)
  ELSE BNAdd(BNNew(Head(bytes)), BNMulSmall(ReadUIntLE(Tail(bytes)), 256))

\* C10: the payload of the swap instruction is 24 bytes: the discriminator
\* [143,190,90,218,196,30,51,222], amountIn as 8 little-endian bytes, then
\* minimumAmountOut as 8 little-endian bytes; reading bytes 8..15 and 16..23
\* back gives amountIn and minimumAmountOut, for every pair of unsigned 64-bit
\* values.
ThmC10_SwapPayload ==
  Returned =>
    /\ (BNLte(pureCall.amountIn, U64Max) /\ BNLte(pureCall.minimumAmountOut, U64Max))
       => pureRet.ok
    /\ pureRet.ok =>
         /\ Len(pureRet.data) = 24
         /\ \A i \in 1..24 : pureRet.data[i] \in 0..255
         /\ SubSeq(pureRet.data, 1, 8) = <<143, 190, 90, 218, 196, 30, 51, 222>>
         /\ ReadUIntLE(SubSeq(pureRet.data, 9, 16)) = pureCall.amountIn
         /\ ReadUIntLE(SubSeq(pureRet.data, 17, 24)) = pureCall.minimumAmountOut

WitC10_LargestValuesEncoded ==
  /\ ReturnedOk
  /\ pureCall.amountIn = U64Max
  /\ pureCall.minimumAmountOut = BNNew(65535)
  /\ SubSeq(pureRet.data, 9, 16) = <<255, 255, 255, 255, 255, 255, 255, 255>>
  /\ SubSeq(pureRet.data, 17, 24) = <<255, 255, 0, 0, 0, 0, 0, 0>>

ByAddressReturned == pureCall.fn = "getPoolStateByAddress" /\ pureRet # None
SearchReturned == pureCall.fn = "findPoolByTokenPair" /\ pureRet # None
BothSearchesReturned == SearchReturned /\ "second" \in DOMAIN pureRet

\* An active pool of the CPMM program is stored with the mints m0, m1 in this
\* order
ActivePoolStored(m0, m1) ==
  \E a \in DOMAIN Ledger :
    /\ Ledger[a].owner = "CPMMoo8L3F4NbTegBCKVNunggL7H1ZpdTHKxQB5qKP1C"
    /\ Ledger[a].data.length = 637
    /\ Ledger[a].data.token0Mint = m0
    /\ Ledger[a].data.token1Mint = m1
    /\ Ledger[a].data.status = 0

\* C11 (as amended): findPoolByTokenPair(A, B) and findPoolByTokenPair(B, A)
\* return the same result (the same PoolState, or not-found in both) whenever
\* the ledger does not hold active pools of the pair in both mint orderings,
\* each of the two searches ending the same way in both calls.
ThmC11_SearchSymmetricForOneOrdering ==
  (/\ BothSearchesReturned
   /\ rpc[1].status = rpc[4].status
   /\ rpc[2].status = rpc[3].status
   /\ ~(/\ ActivePoolStored(pureCall.tokenA, pureCall.tokenB)
        /\ ActivePoolStored(pureCall.tokenB, pureCall.tokenA)))
  => pureRet.first = pureRet.second

\* C11 as the claim states it: for any mints A and B and any ledger contents
\* the two calls return the same result.
CexC11_SearchSymmetric ==
  (BothSearchesReturned /\ \A i \in 1..4 : rpc[i].status = "ok")
  => pureRet.first = pureRet.second

WitC11_PoolStoredInExchangedOrder ==
  /\ BothSearchesReturned
  /\ \A i \in 1..4 : rpc[i].status = "ok"
  /\ pureRet.first.found
  /\ pureRet.second = pureRet.first
  /\ pureRet.first.state.token0Mint = pureCall.tokenB
  /\ pureRet.first.state.token1Mint = pureCall.tokenA
  /\ pureCall.tokenA # pureCall.tokenB

\* The candidates the two searches of the first call returned, merged
MergedCandidates ==
  (IF rpc[1].status = "ok" THEN getProgramAccounts(pureCall.tokenA, pureCall.tokenB)
   ELSE <<>>)
  \o
  (IF rpc[2].status = "ok" THEN getProgramAccounts(pureCall.tokenB, pureCall.tokenA)
   ELSE <<>>)

\* C12: findPoolByTokenPair returns the first candidate of the merged list of
\* both searches whose status is 0; candidates of another status are skipped
\* without an error; when no candidate is active the result is not-found; a
\* pool that is not active is never returned.
ThmC12_FirstActiveCandidate ==
  SearchReturned =>
    LET r == pureRet.first
        merged == MergedCandidates
    IN  /\ DOMAIN r \in {{"found"}, {"found", "state"}}
        /\ r.found =>
             /\ r.state.status = 0
             /\ \E i \in 1..Len(merged) :
                  /\ merged[i] = r.state.address
                  /\ Ledger[merged[i]].data.status = 0
                  /\ r.state.token0Vault = Ledger[merged[i]].data.token0Vault
                  /\ \A j \in 1..(i - 1) : Ledger[merged[j]].data.status # 0
        /\ ~r.found => \A i \in 1..Len(merged) : Ledger[merged[i]].data.status # 0

WitC12_InactiveCandidateSkipped ==
  /\ SearchReturned
  /\ pureRet.first.found
  /\ Len(MergedCandidates) = 2
  /\ MergedCandidates[2] = pureRet.first.state.address
  /\ Ledger[MergedCandidates[1]].data.status # 0
  /\ Ledger[MergedCandidates[1]].data.token0Mint = pureCall.tokenA
  /\ pureRet.first.state.token0Mint = pureCall.tokenB

\* What a caller can tell a lookup that gave no pool failed with: the error
\* it threw, or not-found for null
FailureKind(r) ==
  IF r.found THEN "none" ELSE IF "error" \in DOMAIN r THEN r.error ELSE "NotFound"

AccountRead == rpc[1].status = "ok"
AccountAbsent == pureCall.poolAddress \notin DOMAIN Ledger
AccountOfOtherProgram ==
  /\ pureCall.poolAddress \in DOMAIN Ledger
  /\ Ledger[pureCall.poolAddress].owner # "CPMMoo8L3F4NbTegBCKVNunggL7H1ZpdTHKxQB5qKP1C"

\* C13 (as amended): getPoolStateByAddress performs one direct account read
\* and returns null, the same not-found result, both when no account exists at
\* the address and when the account's owner is not the swap program; in
\* neither case is a PoolState returned, and an account the swap program owns
\* gives the PoolState at that address.
ThmC13_AbsentAndForeignAreNotFound ==
  ByAddressReturned =>
    /\ Len(rpc) = 1
    /\ rpc[1].method = "getAccountInfo" /\ rpc[1].arg = pureCall.poolAddress
    /\ (AccountAbsent \/ AccountOfOtherProgram) => pureRet.first = [found |-> FALSE]
    /\ (AccountRead /\ ~AccountAbsent /\ ~AccountOfOtherProgram) =>
         pureRet.first.found /\ pureRet.first.state.address = pureCall.poolAddress

\* C13 as the claim states it: the two failures are told apart, NotFound for no
\* account and OwnershipMismatch for an account of another program.
CexC13_FailuresDistinguished ==
  (ByAddressReturned /\ AccountRead) =>
    /\ AccountAbsent => FailureKind(pureRet.first) = "NotFound"
    /\ AccountOfOtherProgram => FailureKind(pureRet.first) = "OwnershipMismatch"

WitC13_ForeignAccountRead ==
  ByAddressReturned /\ AccountRead /\ AccountOfOtherProgram /\ ~pureRet.first.found

FirstCallRequests == IF pureCall.fn = "getPoolStateByAddress" THEN {1} ELSE {1, 2}

\* C16: no ledger operation is retried, and when a search of
\* findPoolByTokenPair or the account read of getPoolStateByAddress fails the
\* caller receives an error for that failure, not an empty or not-found result.
CexC16_FailedReadSurfaces ==
  (pureRet # None /\ \E i \in FirstCallRequests : rpc[i].status = "failed")
  => (~pureRet.first.found /\ FailureKind(pureRet.first) # "NotFound")

InProgress == pc \in {"idle", "lookup", "quote", "programs", "build", "blockhash"}
Failed == pc = "error"
MintAccountMissing(mint) ==
  mint # "So11111111111111111111111111111111111111112" /\ mint \notin DOMAIN Ledger

\* C15: createSwapTransaction has no partial success: when the pool lookup
\* finds no pool, a vault balance read fails, the account of a non-native mint
\* is missing or the recent-blockhash read fails, the call ends with an error
\* and returns no transaction, quote or pool state; a transaction is returned
\* only when every step succeeded, and nothing is returned before the end.
ThmC15_NoPartialSuccess ==
  /\ InProgress => result = [set |-> FALSE]
  /\ Failed => ~result.ok /\ DOMAIN result = {"ok", "error"}
  /\ Done =>
       /\ result.ok /\ DOMAIN result = {"ok", "transaction", "quote", "poolState"}
       /\ result.poolState = poolState /\ result.quote = quote
       /\ result.transaction.instructions = instructions /\ instructions # <<>>
  /\ (pc \notin {"idle", "lookup"} /\ poolState = [set |-> FALSE]) => Failed
  /\ (\E i \in 1..Len(rpc) :
        rpc[i].method # "getProgramAccounts" /\ rpc[i].status = "failed") => Failed
  /\ (pc \notin {"idle", "lookup", "quote", "programs"}
      /\ (MintAccountMissing(call.inputMint) \/ MintAccountMissing(call.outputMint)))
     => Failed

WitC15_FailedAtLastStep ==
  /\ Failed
  /\ result.error = "getLatestBlockhash failed"
  /\ instructions # <<>>
  /\ quote # [set |-> FALSE]
  /\ rpc[Len(rpc)].status = "failed"

\* The reads of a pool the lookup of the call sent
PoolSearches == {i \in 1..Len(rpc) : rpc[i].method = "getProgramAccounts"}
AccountReads == {i \in 1..Len(rpc) : rpc[i].method = "getAccountInfo"}

\* C17: given a poolAddress, the lookup of createSwapTransaction sends only the
\* direct read of that address and never a token-pair search, also when the
\* read finds nothing; without one it sends only the two searches of the pair.
\* Exactly one of the two lookup paths runs in a call.
ThmC17_OneLookupPath ==
  pc \notin {"idle", "lookup"} =>
    IF call.poolAddress # "undefined"
    THEN /\ PoolSearches = {}
         /\ rpc[1].method = "getAccountInfo" /\ rpc[1].arg = call.poolAddress
         /\ \A i \in AccountReads \ {1} : rpc[i].arg \in {call.inputMint, call.outputMint}
    ELSE /\ PoolSearches = {1, 2}
         /\ rpc[1].arg = <<call.inputMint, call.outputMint>>
         /\ rpc[2].arg = <<call.outputMint, call.inputMint>>
         /\ \A i \in AccountReads : rpc[i].arg \in {call.inputMint, call.outputMint}

WitC17_DirectReadFoundNothing ==
  /\ Failed
  /\ call.poolAddress = "NoSuchAccount"
  /\ call.inputMint = "So11111111111111111111111111111111111111112"
  /\ call.outputMint = "MintA"
  /\ Len(rpc) = 1
  /\ rpc[1].status = "ok"

\* C18: the create instruction of a temporary wrapped-native account funds it
\* with exactly rentExemptionMinimum + amount lamports: amountIn for a native
\* input and 0 for a native output, for every amountIn of the unsigned 64-bit
\* range.
CexC18_TempAccountFunding ==
  Done =>
    LET ins == TxInstructions
        o   == IF IsInputSOL THEN 5 ELSE 3
    IN  /\ IsInputSOL => ins[3].lamports = BNAdd(BNNew(2039280), call.amountIn)
        /\ IsOutputSOL => ins[o].lamports = BNNew(2039280)

\* C19: getVaultBalances sends the two balance reads together and joins them:
\* it returns balances only when both reads succeeded, vault0Balance being
\* what the read of token0Vault gave and vault1Balance what the read of
\* token1Vault gave, whichever read completed first, and it fails when either
\* read fails.
ThmC19_VaultReadsJoined ==
  LET ps == pureCall.poolState
  IN  /\ Len(rpc) \in {0, 2}
      /\ rpc # <<>> =>
           /\ \A i \in 1..2 : rpc[i].method = "getTokenAccountBalance"
           /\ rpc[1].arg = ps.token0Vault /\ rpc[2].arg = ps.token1Vault
           /\ (\E i \in 1..2 : rpc[i].status = "failed")
              => (pureRet # [set |-> FALSE] /\ ~pureRet.ok)
           /\ (\A i \in 1..2 : rpc[i].status = "ok")
              => (pureRet # [set |-> FALSE] /\ pureRet.ok)
      /\ pureRet # [set |-> FALSE] =>
           IF pureRet.ok
           THEN /\ \A i \in 1..2 : rpc[i].status = "ok"
                /\ pureRet.value = [vault0Balance |-> rpc[1].value,
                                    vault1Balance |-> rpc[2].value]
           ELSE \E i \in 1..2 : rpc[i].status = "failed"

WitC19_SecondReadCompletedFirst ==
  /\ pureCall.fn = "getVaultBalances"
  /\ pureRet # [set |-> FALSE]
  /\ pureRet.ok
  /\ rpc[2].rank = 1 /\ rpc[1].rank = 2
  /\ rpc[1].value # rpc[2].value
  /\ pureRet.value.vault0Balance = rpc[1].value

\* C14: parsePoolState fails with a MalformedAccount error whenever the data is
\* shorter than the fixed pool layout; it never returns a PoolState decoded
\* from a truncated record.
CexC14_TruncatedDataRejected ==
  (Returned /\ pureCall.data.length < POOL_DATA_SIZE) => ~pureRet.ok

\* C21: the two searches of findPoolByTokenPair are joined before a candidate
\* is examined: nothing is returned while a search is pending, and once both
\* have completed the candidates examined are those of the (tokenA, tokenB)
\* search followed by those of the (tokenB, tokenA) search and the pool
\* returned is the first active one of them, the same for every order in
\* which the two searches completed.
ThmC21_SearchesJoined ==
  /\ Len(rpc) \in {0, 2}
  /\ (rpc = <<>> \/ \E i \in 1..Len(rpc) : rpc[i].status = "pending")
     => pureRet = [set |-> FALSE]
  /\ (rpc # <<>> /\ \A i \in 1..Len(rpc) : rpc[i].status # "pending") =>
       /\ rpc[1].arg = <<pureCall.tokenA, pureCall.tokenB>>
       /\ rpc[2].arg = <<pureCall.tokenB, pureCall.tokenA>>
       /\ {rpc[1].rank, rpc[2].rank} = {1, 2}
       /\ pureRet = [first |-> FirstActivePool(MergedCandidates)]

WitC21_SecondSearchCompletedFirst ==
  /\ pureCall.fn = "findPoolByTokenPair"
  /\ pureRet # [set |-> FALSE]
  /\ rpc[2].rank = 1 /\ rpc[1].rank = 2
  /\ rpc[1].status = "ok" /\ rpc[2].status = "ok"
  /\ ActivePoolStored(pureCall.tokenA, pureCall.tokenB)
  /\ ActivePoolStored(pureCall.tokenB, pureCall.tokenA)
  /\ pureCall.tokenA # pureCall.tokenB
  /\ pureRet.first.found
  /\ pureRet.first.state.token0Mint = pureCall.tokenA

\* The temporary accounts the calls have made so far, each with the call and
\* the side (input or output) it was made for
TempAccountsMade ==
  {[call |-> k, side |-> "input", account |-> pureRet[k].tempWsolInputAccount.account] :
     k \in {j \in TempCalls : pureRet[j].tempWsolInputAccount.made}}
  \cup
  {[call |-> k, side |-> "output", account |-> pureRet[k].tempWsolOutputAccount.account] :
     k \in {j \in TempCalls : pureRet[j].tempWsolOutputAccount.made}}

\* C22: every call of createTempWsolAccount generates a seed of its own, so
\* the temporary account addresses never collide: the input and the output
\* temporary account of one transaction are distinct, and two concurrent
\* createSwapTransaction calls of the same payer never derive the same
\* temporary account address.
ThmC22_TempAddressesDistinct ==
  /\ \A t \in TempAccountsMade : \A u \in TempAccountsMade :
       t.account = u.account => (t.call = u.call /\ t.side = u.side)
  /\ \A k \in TempCalls :
       /\ Len(pureRet[k].seeds) <= 2
       /\ \A i \in 1..Len(pureRet[k].seeds) : \A j \in TempCalls :
            \A m \in 1..Len(pureRet[j].seeds) :
              pureRet[k].seeds[i] = pureRet[j].seeds[m] => (k = j /\ i = m)
       /\ \A t \in TempAccountsMade :
            t.call = k => /\ t.account.base = pureCall[k].payer
                          /\ \E i \in 1..Len(pureRet[k].seeds) :
                               t.account.seed = pureRet[k].seeds[i]

WitC22_FourTempAccountsOfOnePayer ==
  /\ \A k \in {1, 2} : /\ pureRet[k].step = "swap"
                        /\ pureRet[k].tempWsolInputAccount.made
                        /\ pureRet[k].tempWsolOutputAccount.made
  /\ pureCall[1].payer = pureCall[2].payer
  /\ Cardinality(TempAccountsMade) = 4

\* The invocations of handleTrade that passed the submit guard
TradesMade == {i \in 1..Len(trades) : trades[i].pc # "returned"}

\* C23: in handleTrade the steps run in the order create transaction, sign,
\* send, confirm; a trade is reported successful and a balance refresh is
\* scheduled only after the confirmation returned with no on-chain error; a
\* confirmation with an on-chain error is reported as a failed trade and no
\* refresh is scheduled; a failure at any step stops the later steps.
ThmC23_TradeFlowOrder ==
  \A i \in TradesMade :
    LET t == trades[i]
        all == <<"create", "sign", "send", "confirm">>
    IN  /\ Len(t.steps) \in 1..4
        /\ t.steps = SubSeq(all, 1, Len(t.steps))
        /\ t.pc = "createTransaction" => t.steps = <<"create">>
        /\ t.pc = "sendTransaction" => t.steps = <<"create", "sign", "send">>
        /\ t.pc = "confirmTransaction" => t.steps = all
        /\ (t.toast = "Trade successful!" \/ t.refresh) =>
             /\ t.pc = "ended"
             /\ t.steps = all
             /\ t.confirmation = "confirmed"
             /\ t.toast = "Trade successful!" /\ t.refresh
        /\ t.confirmation = "err" =>
             /\ t.pc = "ended"
             /\ t.toast = "Trade failed on-chain"
             /\ ~t.refresh
        /\ t.confirmation = "none" => (t.toast # "Trade successful!" /\ ~t.refresh)
        /\ (t.pc = "ended" /\ Len(t.steps) < 4) =>
             (t.confirmation = "none" /\ t.toast \notin {"Trade successful!",
                                                        "Sending transaction...",
                                                        "Confirming transaction..."})

WitC23_OnChainErrorReported ==
  \E i \in TradesMade :
    /\ trades[i].pc = "ended"
    /\ trades[i].steps = <<"create", "sign", "send", "confirm">>
    /\ trades[i].confirmation = "err"
    /\ trades[i].toast = "Trade failed on-chain"
    /\ ~trades[i].refresh

\* C24: for amountIn >= 0, inputReserve > 0, outputReserve >= 0 and feeBps in
\* 0..10000, calculateSwapOutput returns an amountOut that is at most the
\* output reserve, strictly less when the output reserve is not zero, and the
\* product of the reserves after the swap, (inputReserve + effectiveIn) *
\* (outputReserve - amountOut), is at least inputReserve * outputReserve.
ThmC24_OutputWithinReserve ==
  (Returned /\ ~BNIsZero(pureCall.inputReserve)) =>
    LET effectiveIn == BNDiv(BNMul(pureCall.amountIn,
                                   BNNew(BPS_DENOMINATOR - pureCall.feeBps)),
                             BNNew(BPS_DENOMINATOR))
    IN  /\ pureRet.ok
        /\ BNLte(pureRet.amountOut, pureCall.outputReserve)
        /\ ~BNIsZero(pureCall.outputReserve) =>
             BNLt(pureRet.amountOut, pureCall.outputReserve)
        /\ BNLte(BNMul(pureCall.inputReserve, pureCall.outputReserve),
                 BNMul(BNAdd(pureCall.inputReserve, effectiveIn),
                       BNSub(pureCall.outputReserve, pureRet.amountOut)))

WitC24_AllButOneUnitBought ==
  /\ ReturnedOk
  /\ pureCall.amountIn = U64Max
  /\ pureCall.inputReserve = BNNew(1)
  /\ pureCall.outputReserve = U64Max
  /\ pureCall.feeBps = 0
  /\ BNAdd(pureRet.amountOut, BNNew(1)) = pureCall.outputReserve

\* The pool used has a status byte, and it says active
UsedPoolIsActive ==
  /\ POOL_STATE_LAYOUT.STATUS < Ledger[poolState.address].data.length
  /\ poolState.status = POOL_STATUS_ACTIVE

\* C25: createSwapTransaction quotes and builds the swap instruction only
\* against a pool whose status is active (0), whether the pool was read at
\* poolAddress or found by the search for the token pair.
CexC25_OnlyActivePoolUsed ==
  (quote # None \/ instructions # <<>> \/ Done) => UsedPoolIsActive

\* What holds of the code: a pool the search for the pair found is active.
SearchedPoolIsActive ==
  (poolState # None /\ call.poolAddress = NoPoolAddress) => UsedPoolIsActive

InactivePoolTransaction ==
  /\ Done
  /\ call.poolAddress = "PoolSolAInactive"
  /\ poolState.status # POOL_STATUS_ACTIVE

\* The balance getVaultBalances read of the vault of poolState that holds mint
BalanceOfVaultHolding(mint) ==
  IF mint = poolState.token0Mint THEN vaultBalances.vault0Balance
  ELSE vaultBalances.vault1Balance

\* C26: the pool of every transaction createSwapTransaction returns trades the
\* requested pair, {token0Mint, token1Mint} = {inputMint, outputMint}, also
\* when the pool was supplied by poolAddress, and the quote was computed with
\* the balance of the vault holding inputMint as the input reserve and the
\* balance of the vault holding outputMint as the output reserve.
CexC26_PoolTradesRequestedPair ==
  Done =>
    /\ {poolState.token0Mint, poolState.token1Mint} = {call.inputMint, call.outputMint}
    /\ quote = QuoteForReserves(call.inputMint, call.outputMint, call.amountIn,
                                BalanceOfVaultHolding(call.inputMint),
                                BalanceOfVaultHolding(call.outputMint),
                                call.slippageBps)

\* What holds of the code: a pool the search for the pair found trades the pair.
SearchedPoolTradesRequestedPair ==
  (Done /\ call.poolAddress = NoPoolAddress /\ call.inputMint # call.outputMint) =>
    {poolState.token0Mint, poolState.token1Mint} = {call.inputMint, call.outputMint}

OtherPairTransaction ==
  /\ Done
  /\ call.poolAddress = "PoolAB"
  /\ call.inputMint = NATIVE_MINT
  /\ call.outputMint = "MintA"
  /\ poolState.token0Mint = "MintA" /\ poolState.token1Mint = "MintB"

\* C27: the quote createSwapTransaction returns describes the transaction it
\* returns: bytes 8..15 and 16..23 of the payload of the swap instruction read
\* back as quote.amountIn and quote.minimumAmountOut, accounts 11 and 12 of the
\* instruction are quote.inputMint and quote.outputMint, and the vault whose
\* balance was the input reserve of the quote is the input vault (account 7)
\* of the instruction, the other vault being the output vault (account 8).
ThmC27_QuoteDescribesTransaction ==
  Done =>
    LET swap == TxInstructions[SwapIndex(TxInstructions)]
        k    == swap.keys
        q    == result.quote
        ps   == result.poolState
    IN  /\ Cardinality(IndicesOfKind(TxInstructions, "swap")) = 1
        /\ q = quote /\ ps = poolState
        /\ Len(swap.data) = SWAP_DATA_SIZE
        /\ ReadUIntLE(SubSeq(swap.data, 9, 16)) = q.amountIn
        /\ ReadUIntLE(SubSeq(swap.data, 17, 24)) = q.minimumAmountOut
        /\ q.amountIn = call.amountIn
        /\ k[11].pubkey = q.inputMint /\ k[12].pubkey = q.outputMint
        /\ q.inputMint = call.inputMint /\ q.outputMint = call.outputMint
        /\ k[7].pubkey \in {ps.token0Vault, ps.token1Vault}
        /\ k[8].pubkey \in {ps.token0Vault, ps.token1Vault}
        /\ ps.token0Vault # ps.token1Vault => k[7].pubkey # k[8].pubkey
        /\ k[7].pubkey = ps.token0Vault =>
             q = QuoteForReserves(q.inputMint, q.outputMint, q.amountIn,
                                  vaultBalances.vault0Balance,
                                  vaultBalances.vault1Balance, call.slippageBps)
        /\ k[7].pubkey = ps.token1Vault =>
             q = QuoteForReserves(q.inputMint, q.outputMint, q.amountIn,
                                  vaultBalances.vault1Balance,
                                  vaultBalances.vault0Balance, call.slippageBps)

WitC27_ReverseDirectionQuoted ==
  /\ Done
  /\ call.inputMint = poolState.token1Mint
  /\ call.outputMint = poolState.token0Mint
  /\ result.quote.minimumAmountOut # result.quote.amountIn
  /\ ~BNIsZero(result.quote.minimumAmountOut)
  /\ TxInstructions[SwapIndex(TxInstructions)].keys[7].pubkey = poolState.token1Vault

TradesInFlight == {i \in 1..Len(trades) : TradeInFlight(trades[i])}

\* C28: at most one trade is in flight in a trading component: an invocation
\* of handleTrade made while an earlier one has not finished returns without
\* creating, signing or sending a transaction, however the clicks and the
\* settling of the pending calls interleave.
ThmC28_OneTradeInFlight ==
  /\ Cardinality(TradesInFlight) <= 1
  /\ TradesInFlight # {} => (isSubmitting /\ rendered.isSubmitting)
  /\ \A i \in 1..Len(trades) : \A j \in (i + 1)..Len(trades) :
       TradeInFlight(trades[i]) => trades[j] = TradeReturned
  /\ \A i \in 1..Len(trades) :
       trades[i].pc = "returned" =>
         (trades[i].steps = <<>> /\ trades[i].toast = "none" /\ ~trades[i].refresh)

WitC28_ClickDuringSendReturned ==
  /\ Len(trades) = 3
  /\ trades[1].pc = "ended"
  /\ trades[2].pc = "sendTransaction"
  /\ trades[3] = TradeReturned

\* C29: every invocation of handleTrade that set isSubmitting sets it back to
\* false, whether createTransaction, signTransaction, sendTransaction and
\* confirmTransaction return or throw; isSubmitting is false whenever no trade
\* is in flight, and once the update is rendered a later trade can start.
ThmC29_SubmitLockReleased ==
  /\ [](TradesInFlight = {} => ~isSubmitting)
  /\ \A i \in 1..MaxTrades :
       /\ (i <= Len(trades) /\ TradeInFlight(trades[i]))
            ~> (i <= Len(trades) /\ trades[i].pc = "ended" /\ trades[i].released
                                 /\ ~isSubmitting)
       /\ (i <= Len(trades) /\ TradeInFlight(trades[i]))
            ~> (i <= Len(trades) /\ trades[i].pc = "ended" /\ ~rendered.isSubmitting)

WitC29_TradeStartedAfterFailedOne ==
  /\ Len(trades) >= 2
  /\ trades[1].pc = "ended"
  /\ trades[1].toast = "sendTransaction failed"
  /\ trades[2].pc = "ended"
  /\ trades[2].confirmation = "confirmed"
  /\ ~isSubmitting
  /\ ~rendered.isSubmitting

SaveReturned == pureRet # None /\ pureCall.fn = "handleSaveEdit"

\* The values of an edit list that parse to a number greater than 0
PositiveValues(edit) == {i \in 1..Len(edit) : ParseFloatOrZero(edit[i]) > 0}

\* C30: handleSaveEdit replaces the buy and sell lists of the active preset,
\* by the parsed values, and leaves the edit mode when exactly 4 buy values and
\* exactly 4 sell values parse to numbers greater than 0, and then every other
\* tab and the slippage, MEV protection and gas fee of the active tab are
\* unchanged; otherwise it returns false, stays in edit mode and leaves all
\* presets unchanged.
ThmC30_SaveAllOrNothing ==
  SaveReturned =>
    LET before == pureCall.presets
        active == pureCall.activePreset
        buy    == pureCall.editBuyPresets
        sell   == pureCall.editSellPresets
    IN  /\ activePreset = active
        /\ IF /\ Cardinality(PositiveValues(buy)) = 4
              /\ Cardinality(PositiveValues(sell)) = 4
           THEN /\ pureRet.returned = TRUE
                /\ ~isEditMode
                /\ Len(presets[active].buyPresets) = 4
                /\ Len(presets[active].sellPresets) = 4
                /\ \A i \in 1..4 :
                     /\ presets[active].buyPresets[i] = ParsedFloat[buy[i]]
                     /\ presets[active].sellPresets[i] = ParsedFloat[sell[i]]
                /\ presets[active].slippage = before[active].slippage
                /\ presets[active].mevProtection = before[active].mevProtection
                /\ presets[active].gasFee = before[active].gasFee
                /\ DOMAIN presets = DOMAIN before
                /\ DOMAIN presets[active] = DOMAIN before[active]
                /\ \A tab \in DOMAIN before : tab # active => presets[tab] = before[tab]
           ELSE /\ pureRet.returned = FALSE
                /\ isEditMode
                /\ presets = before

WitC30_EditedSecondTabSaved ==
  /\ SaveReturned
  /\ pureRet.returned = TRUE
  /\ activePreset = "P2"
  /\ presets["P2"].buyPresets = <<500, 50, 100, 2500>>
  /\ presets["P2"].sellPresets # DEFAULT_PRESETS["P2"].sellPresets

SaveRefused ==
  /\ SaveReturned
  /\ pureRet.returned = FALSE
  /\ Cardinality(PositiveValues(pureCall.editBuyPresets)) = 4
  /\ Cardinality(PositiveValues(pureCall.editSellPresets)) = 3

====
